---- MODULE Spec2Model ----
(***************************************************************************)
(* A model of imin-ltd/open-objects-script: the scripts that walk an RPDE  *)
(* feed page by page and write its items to files.                         *)
(*                                                                         *)
(* The repository holds several scripts with the same walking protocol:    *)
(*   "geoSegment"   geoSegment.js, the newest revision: pages are fetched  *)
(*                  through the exponential-backoff library, items are     *)
(*                  processed one after the other, files are named by the  *)
(*                  SHA-1 of the id (src/unnamed/part_001:739-1199);       *)
(*   "geoSegmentV1" geoSegment.js, the first revision: a hand-written      *)
(*                  retry loop, items processed by items.forEach(async ..) *)
(*                  (src/unnamed/part_001:1-353); the same retry loop is   *)
(*                  downloadFirehosePageAndProcess of the second revision  *)
(*                  (src/unnamed/part_001:631-671);                        *)
(*   "walkRpde"     walkRpde.js with the retry loop                        *)
(*                  (src/unnamed/part_010).                                *)
(* The variable script says which one runs; it never changes.              *)
(*                                                                         *)
(* Encodings.  A URL is a number from 1, in the order in which the feed    *)
(* first names it; as the value of a page's                                *)
(* "next" field, 0 is the empty string and -1 any value that is no string. *)
(* An instant is a number of hours since Monday 2024-01-01 00:00 in the    *)
(* schedule's timezone; a date is a number of days since that Monday.      *)
(* A string id is a record [base, at]: at is -1 for an id that comes from  *)
(* the feed, and the start instant for an id built from an idTemplate.     *)
(* A field that a JavaScript object does not have holds the No... value of *)
(* its type.                                                               *)
(***************************************************************************)
EXTENDS Integers, Sequences, FiniteSets, TLC

(***************************************************************************)
(* Bounds of the model.                                                    *)
(***************************************************************************)
\* pages handed to the item processor in one run
MaxPages == 2

(***************************************************************************)
(* Program constants.                                                      *)
(***************************************************************************)
RETRY_BACKOFF_MIN == 1
RETRY_BACKOFF_MAX == 1024
RETRY_BACKOFF_EXPONENTIATION_RATE == 2
RETRY_BACKOFF_MIN_SECONDS == 1
RETRY_BACKOFF_MAX_SECONDS == 1024
numOfAttempts == 10
WEEKS_IN_FUTURE_TIME_WINDOW == 1
SCHEDULE_TIME_WINDOW_IN_WEEKS == 4
HoursPerDay == 24
DaysPerWeek == 7

VARIABLES
  script,                \* which script runs
  walk,                  \* "series" or "occurrences": the feed being walked
  pc,                    \* "ready" | "fetching" | "done" | "exited" | "crashed" | "hung"
  nextUrl,               \* the walker's current URL
  attemptNumber,         \* exponential-backoff: failed attempts on this page
  backoffTimeInSeconds,  \* hand-written loop: the next retry wait
  pageNum,               \* walkRpde: number of the page being downloaded
  exitCode,              \* -1 while running, else the process exit status
  logs,                  \* the log records written so far (a set)
  lastWait,              \* seconds waited since the previous request of this walk
  failuresOnPage,        \* consecutive failed fetches of nextUrl
  lastFetch,             \* outcome of the latest answered request
  handed,                \* pages handed to the item processor so far, per walk
  files,                 \* the output directory: path -> content
  firstWriter,           \* history: path -> id of the first item written there
  index,                 \* listing of each segment (geoSegment) / the index file (walkRpde)
  pending,               \* geoSegmentV1: item tasks that forEach started and nobody awaits
  sessionSeriesFilePaths,\* geoSegmentV1: SESSION_SERIES_FILE_PATHS
  now,                   \* the clock
  delivered,             \* the items given to the item processors, and the runs made
  argument,              \* the input of a function that is looked at on its own
  result                 \* what the function returned for argument

vars == <<script, walk, pc, nextUrl, attemptNumber, backoffTimeInSeconds, pageNum,
          exitCode, logs, lastWait, failuresOnPage, lastFetch, handed, files, firstWriter, index,
          pending, sessionSeriesFilePaths, now, delivered, argument, result>>

\* what the walkers leave alone
probeVars == <<delivered, argument, result>>

(***************************************************************************)
(* Data.                                                                   *)
(***************************************************************************)
\* number of distinct file names the model's stand-in for SHA-1 produces
NumHashes == 2

NoId == [base |-> "", at |-> -1]
NoName == ""
NoGeo == -1
NoDate == -1
NoTime == -1
NoDuration == ""
NoHash == -1
NoTemplate == [base |-> "", placeholder |-> FALSE]
NoSuperEvent == [kind |-> "absent", ref |-> NoId, name |-> NoName, presentAsSlots |-> FALSE]
\* eventAttendanceMode, absent and the three of schema.org
NoMode == ""
OfflineEventAttendanceMode == "https://schema.org/OfflineEventAttendanceMode"
OnlineEventAttendanceMode == "https://schema.org/OnlineEventAttendanceMode"
MixedEventAttendanceMode == "https://schema.org/MixedEventAttendanceMode"

\* An object of the feed or of the output.  One shape serves SessionSeries data,
\* ScheduledSession data and what is written to a file; segment is 'imin:segment'
\* and fileIdentifier is 'imin:fileIdentifier'.
NoData ==
  [id |-> NoId, name |-> NoName, superEvent |-> NoSuperEvent, location |-> NoGeo,
   affiliatedLocation |-> NoGeo, presentAsSlots |-> FALSE, eventSchedule |-> <<>>,
   startDate |-> NoDate, endDate |-> NoDate, duration |-> NoDuration, segment |-> <<>>,
   fileIdentifier |-> NoHash, eventAttendanceMode |-> NoMode]

NullItem == [null |-> TRUE, state |-> "", id |-> NoId, data |-> NoData]

\* config.json: the segments, in configured order.  A position is a point of a
\* line, in kilometres; the radius is in kilometres.
Segments ==
  << [identifier |-> "s1", position |-> 0, radius |-> 5, attendanceModeFilter |-> "all"],
     [identifier |-> "s2", position |-> 8, radius |-> 5, attendanceModeFilter |-> "all"] >>

SegmentIds == {Segments[i].identifier : i \in 1..Len(Segments)}

\* geolib.getDistance, in metres, on the model's line
getDistance(a, b) == (IF a >= b THEN a - b ELSE b - a) * 1000

\* crypto.createHash('sha1').update(string).digest('hex'): a function of the
\* string alone, with NumHashes values; "a" and "b" are two ids that collide.
BaseCode(base) == IF base = "c" THEN 1 ELSE 0
hashString(id) == (BaseCode(id.base) + (IF id.at < 0 THEN 0 ELSE 1 + (id.at \div HoursPerDay))) % NumHashes

\* A file name: the hash of an id (geoSegment), or the URI-encoded id itself
\* (geoSegmentV1).
HashedName(h) == [base |-> "sha1", at |-> h]
getSessionSeriesFilePath(sessionSeriesIdHash) ==
  [dir |-> "sessionseries", file |-> HashedName(sessionSeriesIdHash)]
getScheduledSessionFilePath(segmentIdentifier, scheduledSessionIdHash) ==
  [dir |-> segmentIdentifier, file |-> HashedName(scheduledSessionIdHash)]

\* fs.writeJson(path, content) on the directory fsys
writeJson(fsys, path, content) ==
  [p \in DOMAIN fsys \cup {path} |-> IF p = path THEN content ELSE fsys[p]]

(***************************************************************************)
(* getFirehosePage: the page request and the validation of the answer.     *)
(* A response is [status, next, itemsIsArray, items]; status 0 stands for  *)
(* a request that got no answer.                                           *)
(***************************************************************************)
isValidItem(item) == ~item.null /\ item.state \in {"updated", "deleted"}

\* items.findIndex(item => !item || (state is neither updated nor deleted)), 0-based
findInvalidIndex(items) ==
  IF \E i \in 1..Len(items) : ~isValidItem(items[i])
    THEN (CHOOSE i \in 1..Len(items) :
            ~isValidItem(items[i]) /\ \A j \in 1..(i - 1) : isValidItem(items[j])) - 1
    ELSE -1

itemsAreRejected(items) == findInvalidIndex(items) > 0

getFirehosePage(response) ==
  IF response.status = 404 THEN [throws |-> "Http404Error"]
  ELSE IF response.status < 200 \/ response.status >= 300 THEN [throws |-> "AxiosError"]
  ELSE IF response.next = -1 \/ response.next = 0 THEN [throws |-> "IminValidationError"]
  ELSE IF ~response.itemsIsArray THEN [throws |-> "IminValidationError"]
  ELSE IF itemsAreRejected(response.items) THEN [throws |-> "IminValidationError"]
  ELSE [throws |-> "none"]

(***************************************************************************)
(* Recurrence expansion: generateDatesWithinTimeWindow and getIsoWeekdays. *)
(* A schedule is [type, byDayIsArray, byDay, startTime, endTime,           *)
(* idTemplate, startDate, endDate, duration]; times of day are hours.      *)
(***************************************************************************)
SCHEDULE_TYPE == "Schedule"

combineYYYYMMDDAndHHMMString(date, time) == date * HoursPerDay + time
dateOf(instant) == instant \div HoursPerDay
isoWeekday(instant) == (dateOf(instant) % DaysPerWeek) + 1

\* the weekday a byDay entry names, 0 when it names none
weekdayOfByDayItem(byDayItem) ==
  CASE byDayItem = "Monday" -> 1
    [] byDayItem = "Tuesday" -> 2
    [] byDayItem = "Wednesday" -> 3
    [] byDayItem = "Thursday" -> 4
    [] byDayItem = "Friday" -> 5
    [] byDayItem = "Saturday" -> 6
    [] byDayItem = "Sunday" -> 7
    [] OTHER -> 0

RECURSIVE byDayToIsoWeekdays(_)
byDayToIsoWeekdays(byDay) ==
  IF byDay = <<>> THEN <<>>
  ELSE IF weekdayOfByDayItem(Head(byDay)) = 0 THEN byDayToIsoWeekdays(Tail(byDay))
  ELSE <<weekdayOfByDayItem(Head(byDay))>> \o byDayToIsoWeekdays(Tail(byDay))

getIsoWeekdays(eventSchedule) ==
  IF ~eventSchedule.byDayIsArray
    THEN IF eventSchedule.startDate = NoDate
           THEN <<>>
           ELSE <<isoWeekday(combineYYYYMMDDAndHHMMString(eventSchedule.startDate, 0))>>
    ELSE byDayToIsoWeekdays(eventSchedule.byDay)

\* Array.prototype.sort() on a list of one-digit numbers
RECURSIVE insertSorted(_, _)
insertSorted(x, sorted) ==
  IF sorted = <<>> THEN <<x>>
  ELSE IF x <= Head(sorted) THEN <<x>> \o sorted
  ELSE <<Head(sorted)>> \o insertSorted(x, Tail(sorted))

RECURSIVE sort(_)
sort(list) == IF list = <<>> THEN <<>> ELSE insertSorted(Head(list), sort(Tail(list)))

\* JavaScript's %: the sign of the result is the sign of the dividend
jsMod(a, b) == IF a >= 0 THEN a % b ELSE 0 - ((0 - a) % b)

isoWeekdayOffsetsOf(eventSchedule, earliestMoment) ==
  LET sorted == sort(getIsoWeekdays(eventSchedule))
  IN [i \in 1..Len(sorted) |-> jsMod(sorted[i] - isoWeekday(earliestMoment), DaysPerWeek)]

latestMomentOf(eventSchedule, nowMoment) ==
  LET timeWindowEndDate == nowMoment + SCHEDULE_TIME_WINDOW_IN_WEEKS * DaysPerWeek * HoursPerDay
      scheduleEndDate == combineYYYYMMDDAndHHMMString(eventSchedule.endDate, eventSchedule.startTime)
  IN IF eventSchedule.endDate = NoDate \/ timeWindowEndDate < scheduleEndDate
       THEN timeWindowEndDate
       ELSE scheduleEndDate

earliestMomentOf(eventSchedule, nowMoment) ==
  LET todayWithStartTimeMoment ==
        combineYYYYMMDDAndHHMMString(dateOf(nowMoment), eventSchedule.startTime)
      nextStartTimeAfterNowMoment ==
        IF todayWithStartTimeMoment < nowMoment
          THEN todayWithStartTimeMoment + HoursPerDay
          ELSE todayWithStartTimeMoment
      scheduleStartDate ==
        combineYYYYMMDDAndHHMMString(eventSchedule.startDate, eventSchedule.startTime)
  IN IF eventSchedule.startDate = NoDate \/ nextStartTimeAfterNowMoment > scheduleStartDate
       THEN nextStartTimeAfterNowMoment
       ELSE scheduleStartDate

\* the n-th start date (n = 1, 2, ..) of generateScheduledSessionStartDatesEndlessly,
\* for a non-empty list of offsets: the first week's offsets that are not
\* negative, then every offset once a week
firstWeekOffsets(offsets) == SelectSeq(offsets, LAMBDA o : o >= 0)

startDateNumber(n, offsets, earliestMoment) ==
  LET first == firstWeekOffsets(offsets)
  IN IF n <= Len(first)
       THEN earliestMoment + first[n] * HoursPerDay
       ELSE LET k == n - Len(first) - 1
                weekOffset == 1 + (k \div Len(offsets))
                isoWeekdayOffset == offsets[1 + (k % Len(offsets))]
            IN earliestMoment + (weekOffset * DaysPerWeek + isoWeekdayOffset) * HoursPerDay

\* eventSchedule.idTemplate.replace('{startDate}', start)
idFromTemplate(idTemplate, start) ==
  [base |-> idTemplate.base, at |-> IF idTemplate.placeholder THEN start ELSE -1]

scheduledSessionAt(eventSchedule, start) ==
  [NoData EXCEPT
     !.id = idFromTemplate(eventSchedule.idTemplate, start),
     !.startDate = start,
     !.endDate = combineYYYYMMDDAndHHMMString(dateOf(start), eventSchedule.endTime),
     !.duration = eventSchedule.duration]

RECURSIVE emitFrom(_, _, _, _, _)
emitFrom(n, eventSchedule, offsets, earliestMoment, latestMoment) ==
  LET start == startDateNumber(n, offsets, earliestMoment)
  IN IF start > latestMoment
       THEN <<>>
       ELSE <<scheduledSessionAt(eventSchedule, start)>>
            \o emitFrom(n + 1, eventSchedule, offsets, earliestMoment, latestMoment)

\* a faulty variant: the optimisation is left out
isNothingToGenerateNever(earliestMoment, latestMoment) == FALSE

\* if (earliestMoment.isAfter(latestMoment))
isNothingToGenerate(earliestMoment, latestMoment) == earliestMoment > latestMoment

\* [hangs, sessions]: hangs when the generator never yields and so never reaches
\* the test against latestMoment
generateDatesWithinTimeWindow(eventSchedule, nowMoment) ==
  LET latestMoment == latestMomentOf(eventSchedule, nowMoment)
      earliestMoment == earliestMomentOf(eventSchedule, nowMoment)
      offsets == isoWeekdayOffsetsOf(eventSchedule, earliestMoment)
  IN IF isNothingToGenerate(earliestMoment, latestMoment)
       THEN [hangs |-> FALSE, sessions |-> <<>>]
     ELSE IF offsets = <<>> THEN [hangs |-> TRUE, sessions |-> <<>>]
     ELSE [hangs |-> FALSE,
           sessions |-> emitFrom(1, eventSchedule, offsets, earliestMoment, latestMoment)]

\* a faulty variant: every schedule passes
isValidScheduleAlways(eventSchedule) == TRUE

\* MINIMAL_EVENT_SCHEDULE_SCHEMA.validate(eventSchedule).error is absent
isValidSchedule(eventSchedule) ==
  /\ eventSchedule.byDayIsArray
  /\ Len(eventSchedule.byDay) >= 1
  /\ eventSchedule.startTime # NoTime
  /\ eventSchedule.endTime # NoTime
  /\ eventSchedule.idTemplate # NoTemplate

(***************************************************************************)
(* The item processors of geoSegment.  They run to completion inside the   *)
(* walker's loop, so each is a function from the output so far to the       *)
(* output after it: out = [files, firstWriter, index, logs, status], status *)
(* being                                                                   *)
(* "ok", "crashed" (an exception left the processor) or "hung" (a loop     *)
(* that never ends).                                                       *)
(***************************************************************************)
LogRecord(level, kind, a, b, hash, url) ==
  [level |-> level, kind |-> kind, a |-> a, b |-> b, hash |-> hash, url |-> url]

hashClashWarning(existingId, newId, hash) ==
  LogRecord("warn", "hashClash", existingId, newId, hash, 0)

\* history: id is written to path
noteFirstWriter(writers, path, id) ==
  IF path \in DOMAIN writers THEN writers
  ELSE [p \in DOMAIN writers \cup {path} |-> IF p = path THEN id ELSE writers[p]]

readJsonNullIfNotExists(fsys, path) == IF path \in DOMAIN fsys THEN fsys[path] ELSE NoData
exists(fsys, path) == path \in DOMAIN fsys

\* {...a, ...b}: b's value where b has the field, else a's
spreadOver(a, b, absent) == IF b # absent THEN b ELSE a

\* the fields of sessionSeries.superEvent that the spread copies into the merge
superEventAsData(superEvent) ==
  IF superEvent.kind = "object"
    THEN [NoData EXCEPT !.id = superEvent.ref, !.name = superEvent.name,
                        !.presentAsSlots = superEvent.presentAsSlots]
    ELSE NoData

mergedName(scheduledSessionData, sessionSeries) ==
  IF sessionSeries.superEvent.kind = "object" /\ sessionSeries.superEvent.name # NoName
    THEN sessionSeries.superEvent.name
  ELSE IF sessionSeries.name # NoName THEN sessionSeries.name
  ELSE scheduledSessionData.name

mergeScheduledSessionAndSessionSeries(scheduledSessionData, sessionSeries) ==
  LET top == superEventAsData(sessionSeries.superEvent)
      mid == [sessionSeries EXCEPT !.superEvent = NoSuperEvent]
      low == [f \in DOMAIN NoData |-> spreadOver(top[f], mid[f], NoData[f])]
      all == [f \in DOMAIN NoData |-> spreadOver(low[f], scheduledSessionData[f], NoData[f])]
  IN [all EXCEPT !.name = mergedName(scheduledSessionData, sessionSeries)]

\* an occurrence file already at path holds another id
isHashClash(existing, id) == existing.id # id

\* mergeIntoModelExample: model.json of a segment folder
ModelName == [base |-> "model", at |-> -1]
RECURSIVE unionOfStrings(_, _)
unionOfStrings(target, source) ==
  IF source = <<>> THEN target
  ELSE IF \E i \in 1..Len(target) : target[i] = Head(source)
    THEN unionOfStrings(target, Tail(source))
    ELSE unionOfStrings(Append(target, Head(source)), Tail(source))

\* Array.prototype.slice(0, 10)
firstTen(list) == IF Len(list) <= 10 THEN list ELSE SubSeq(list, 1, 10)

NoSchedule ==
  [type |-> "", byDayIsArray |-> FALSE, byDay |-> <<>>, startTime |-> NoTime,
   endTime |-> NoTime, idTemplate |-> NoTemplate, startDate |-> NoDate,
   endDate |-> NoDate, duration |-> NoDuration]

mergeScheduleToModel(model, dataInstance) ==
  [f \in DOMAIN NoSchedule |->
     IF f = "byDay" THEN firstTen(unionOfStrings(model[f], dataInstance[f]))
     ELSE IF f = "byDayIsArray" THEN model[f] \/ dataInstance[f]
     ELSE spreadOver(model[f], dataInstance[f], NoSchedule[f])]

RECURSIVE mergeSchedulesInto(_, _)
mergeSchedulesInto(destination, source) ==
  IF source = <<>> THEN destination
  ELSE mergeSchedulesInto(mergeScheduleToModel(destination, Head(source)), Tail(source))

\* combineMerge on two arrays of objects
combineMergeObjects(target, source) ==
  IF source = <<>> THEN target
  ELSE <<mergeSchedulesInto(IF target = <<>> THEN NoSchedule ELSE target[1], source)>>

mergeToModel(model, dataInstance) ==
  [f \in DOMAIN NoData |->
     IF f = "segment" THEN firstTen(unionOfStrings(model[f], dataInstance[f]))
     ELSE IF f = "eventSchedule" THEN combineMergeObjects(model[f], dataInstance[f])
     ELSE spreadOver(model[f], dataInstance[f], NoData[f])]

mergeIntoModelExample(fsys, modelFilePath, data) ==
  writeJson(fsys, modelFilePath, mergeToModel(readJsonNullIfNotExists(fsys, modelFilePath), data))

\* a faulty variant: the listing gets a line at every write
appendsToIndexAlways(isExistingScheduledSession) == TRUE

\* if (!isExistingScheduledSession): the listing gets a line for a new file only
appendsToIndex(isExistingScheduledSession) == ~isExistingScheduledSession

\* a faulty variant: the file goes to every configured segment
iminSegmentOfEverySegment(sessionSeries) == [i \in 1..Len(Segments) |-> Segments[i].identifier]

\* sessionSeries['imin:segment'], the segments the loop goes over
iminSegment(sessionSeries) == sessionSeries.segment

sessionSeriesPhysicalLocationGeoOf(data) ==
  IF data.location # NoGeo THEN data.location ELSE data.affiliatedLocation

segmentIdentifiersInRange(geo) ==
  LET near == SelectSeq(Segments, LAMBDA segment :
                getDistance(geo, segment.position) <= segment.radius * 1000)
  IN [i \in 1..Len(near) |-> near[i].identifier]

\* a faulty variant: the segments are those near the merged ScheduledSession,
\* whose location is its own where it has one
segmentsNearMergedScheduledSession(mergedScheduledSessionData, sessionSeries) ==
  segmentIdentifiersInRange(sessionSeriesPhysicalLocationGeoOf(mergedScheduledSessionData))

\* for (const segmentIdentifier of sessionSeries['imin:segment'])
segmentsToWriteInto(mergedScheduledSessionData, sessionSeries) == iminSegment(sessionSeries)

\* one pass of the loop over sessionSeries['imin:segment']
writeIntoSegment(out, segmentIdentifier, merged) ==
  LET hash == merged.fileIdentifier
      scheduledSessionFilePath == getScheduledSessionFilePath(segmentIdentifier, hash)
      modelFilePath == [dir |-> segmentIdentifier, file |-> ModelName]
      isExistingScheduledSession == exists(out.files, scheduledSessionFilePath)
      existing == readJsonNullIfNotExists(out.files, scheduledSessionFilePath)
  IN IF isExistingScheduledSession /\ isHashClash(existing, merged.id)
       THEN [out EXCEPT !.logs = @ \cup {hashClashWarning(existing.id, merged.id, hash)}]
       ELSE [out EXCEPT
               !.files = mergeIntoModelExample(
                           writeJson(out.files, scheduledSessionFilePath, merged),
                           modelFilePath, merged),
               !.firstWriter = noteFirstWriter(@, scheduledSessionFilePath, merged.id),
               !.index = IF appendsToIndex(isExistingScheduledSession)
                           THEN [@ EXCEPT ![segmentIdentifier] = Append(@, HashedName(hash))]
                           ELSE @]

RECURSIVE writeIntoSegments(_, _, _)
writeIntoSegments(out, segmentIdentifiers, merged) ==
  IF segmentIdentifiers = <<>> THEN out
  ELSE writeIntoSegments(writeIntoSegment(out, Head(segmentIdentifiers), merged),
                         Tail(segmentIdentifiers), merged)

mergeScheduledSessionAndSessionSeriesAndWrite(out, scheduledSessionData, sessionSeries) ==
  LET merged == mergeScheduledSessionAndSessionSeries(scheduledSessionData, sessionSeries)
  IN IF merged.id = NoId
       THEN [out EXCEPT !.status = "crashed"]
       ELSE writeIntoSegments(out, segmentsToWriteInto(merged, sessionSeries),
                              [merged EXCEPT !.fileIdentifier = hashString(merged.id)])

\* the "continue"s at the top of the loop of processSessionSeriesItems
isDroppedSessionSeries(item) ==
  \/ item.state = "deleted"
  \/ item.id = NoId
  \/ (item.data.location = NoGeo /\ item.data.affiliatedLocation = NoGeo)
  \/ item.data.presentAsSlots
  \/ (item.data.superEvent.kind = "object" /\ item.data.superEvent.presentAsSlots)

\* the loop over sessionSeriesData.eventSchedule:
\* [hangs, corrected, sessions]
RECURSIVE validateAndGenerate(_, _)
validateAndGenerate(eventSchedules, nowMoment) ==
  IF eventSchedules = <<>> THEN [hangs |-> FALSE, corrected |-> <<>>, sessions |-> <<>>]
  ELSE LET eventSchedule == Head(eventSchedules)
           rest == validateAndGenerate(Tail(eventSchedules), nowMoment)
           generated == generateDatesWithinTimeWindow(eventSchedule, nowMoment)
       IN IF eventSchedule.type # SCHEDULE_TYPE THEN rest
          ELSE IF ~isValidSchedule(eventSchedule)
            THEN [rest EXCEPT
                    !.corrected = <<[eventSchedule EXCEPT !.type = "PartialSchedule"]>> \o @]
          ELSE IF generated.hangs
            THEN [hangs |-> TRUE, corrected |-> <<>>, sessions |-> <<>>]
          ELSE [rest EXCEPT !.corrected = <<eventSchedule>> \o @,
                            !.sessions = generated.sessions \o @]

RECURSIVE writeScheduledSessions(_, _, _)
writeScheduledSessions(out, scheduledSessions, sessionSeries) ==
  IF scheduledSessions = <<>> \/ out.status # "ok" THEN out
  ELSE writeScheduledSessions(
         mergeScheduledSessionAndSessionSeriesAndWrite(out, Head(scheduledSessions), sessionSeries),
         Tail(scheduledSessions), sessionSeries)

\* the series record at sessionSeriesFilePath holds another id than the item's
isSessionSeriesHashClash(existingSessionSeries, item) == existingSessionSeries.id # item.id

processSessionSeriesItem(out, item, nowMoment) ==
  IF item.null THEN [out EXCEPT !.status = "crashed"]
  ELSE IF isDroppedSessionSeries(item) THEN out
  ELSE
    LET sessionSeriesData ==
          [item.data EXCEPT
             !.segment = segmentIdentifiersInRange(sessionSeriesPhysicalLocationGeoOf(item.data))]
        schedules == validateAndGenerate(sessionSeriesData.eventSchedule, nowMoment)
        sessionSeriesDataWithCorrectedEventSchedules ==
          [sessionSeriesData EXCEPT !.eventSchedule = schedules.corrected]
        sessionSeriesIdHash == hashString(item.id)
        sessionSeriesFilePath == getSessionSeriesFilePath(sessionSeriesIdHash)
        existingSessionSeries == readJsonNullIfNotExists(out.files, sessionSeriesFilePath)
    IN IF sessionSeriesData.segment = <<>> THEN out
       ELSE IF schedules.hangs THEN [out EXCEPT !.status = "hung"]
       ELSE IF exists(out.files, sessionSeriesFilePath)
               /\ isSessionSeriesHashClash(existingSessionSeries, item)
         THEN [out EXCEPT !.logs = @ \cup
                 {hashClashWarning(existingSessionSeries.id, item.id, sessionSeriesIdHash)}]
       ELSE writeScheduledSessions(
              [out EXCEPT
                 !.files = writeJson(@, sessionSeriesFilePath,
                                     sessionSeriesDataWithCorrectedEventSchedules),
                 !.firstWriter = noteFirstWriter(@, sessionSeriesFilePath, item.id)],
              schedules.sessions, sessionSeriesData)

RECURSIVE processSessionSeriesItems(_, _, _)
processSessionSeriesItems(out, items, nowMoment) ==
  IF items = <<>> \/ out.status # "ok" THEN out
  ELSE processSessionSeriesItems(processSessionSeriesItem(out, Head(items), nowMoment),
                                 Tail(items), nowMoment)

\* the "continue"s at the top of the loop of processScheduledSessionItems
isDroppedScheduledSession(item, nowMoment) ==
  \/ item.state = "deleted"
  \/ item.id = NoId
  \/ item.data.startDate = NoDate
  \/ item.data.startDate < nowMoment
  \/ item.data.startDate > nowMoment + WEEKS_IN_FUTURE_TIME_WINDOW * DaysPerWeek * HoursPerDay

superEventMismatchWarning(superEventId, sessionSeriesId, hash) ==
  LogRecord("warn", "superEventMismatch", superEventId, sessionSeriesId, hash, 0)

\* a faulty variant: the ids are not compared
isSuperEventMismatchNever(superEventId, sessionSeries) == FALSE

\* if (scheduledSessionItem.data.superEvent !== sessionSeries.id)
isSuperEventMismatch(superEventId, sessionSeries) == superEventId # sessionSeries.id

processScheduledSessionItem(out, item, nowMoment) ==
  IF item.null THEN [out EXCEPT !.status = "crashed"]
  ELSE IF isDroppedScheduledSession(item, nowMoment) THEN out
  ELSE IF item.data.superEvent.kind # "ref" THEN [out EXCEPT !.status = "crashed"]
  ELSE
    LET scheduledSessionSuperEventIdHash == hashString(item.data.superEvent.ref)
        sessionSeriesFilePath == getSessionSeriesFilePath(scheduledSessionSuperEventIdHash)
        sessionSeries == readJsonNullIfNotExists(out.files, sessionSeriesFilePath)
    IN IF ~exists(out.files, sessionSeriesFilePath) THEN out
       ELSE IF isSuperEventMismatch(item.data.superEvent.ref, sessionSeries)
         THEN [out EXCEPT !.logs = @ \cup
                 {superEventMismatchWarning(item.data.superEvent.ref, sessionSeries.id,
                                            scheduledSessionSuperEventIdHash)}]
       ELSE mergeScheduledSessionAndSessionSeriesAndWrite(out, item.data, sessionSeries)

RECURSIVE processScheduledSessionItems(_, _, _)
processScheduledSessionItems(out, items, nowMoment) ==
  IF items = <<>> \/ out.status # "ok" THEN out
  ELSE processScheduledSessionItems(processScheduledSessionItem(out, Head(items), nowMoment),
                                    Tail(items), nowMoment)

(***************************************************************************)
(* walkRpde: what downloadPage does with a valid page.                     *)
(***************************************************************************)
\* items of one page, at most (the feed of the model sends no longer page)
MaxItems == 2

RpdeIndex == "rpde"
RpdeFileName(page, i) == [dir |-> RpdeIndex, file |-> [base |-> "rpde", at |-> page * (MaxItems + 1) + i]]

\* the loop over the items: [files, firstWriter, filenames, status]; i counts from 0
RECURSIVE saveItems(_, _, _, _)
saveItems(acc, items, page, i) ==
  IF i >= Len(items) THEN acc
  ELSE LET item == items[i + 1]
       IN IF item.null THEN [acc EXCEPT !.status = "crashed"]
          ELSE IF item.state = "updated"
            THEN saveItems([acc EXCEPT
                              !.files = writeJson(@, RpdeFileName(page, i), item),
                              !.firstWriter = noteFirstWriter(@, RpdeFileName(page, i), item.id),
                              !.filenames = Append(@, RpdeFileName(page, i).file)],
                           items, page, i + 1)
          ELSE saveItems(acc, items, page, i + 1)

\* out after downloadPage; the index is appended only when every item was saved
downloadPage(out, items, page) ==
  LET saved == saveItems([files |-> out.files, firstWriter |-> out.firstWriter,
                          filenames |-> <<>>, status |-> "ok"], items, page, 0)
  IN [out EXCEPT !.files = saved.files,
                 !.firstWriter = saved.firstWriter,
                 !.status = saved.status,
                 !.index = IF saved.status = "ok"
                             THEN [@ EXCEPT ![RpdeIndex] = @ \o saved.filenames]
                             ELSE @]

(***************************************************************************)
(* The feed of the model.                                                  *)
(***************************************************************************)
idA == [base |-> "a", at |-> -1]
idB == [base |-> "b", at |-> -1]
idC == [base |-> "c", at |-> -1]

\* Thursday 2024-01-04 10:00
NowThursday == 3 * HoursPerDay + 10

\* every Monday 18:00 to 19:00, until Monday 2024-01-08
MondaySchedule ==
  [NoSchedule EXCEPT !.type = SCHEDULE_TYPE, !.byDayIsArray = TRUE, !.byDay = <<"Monday">>,
                     !.startTime = 18, !.endTime = 19,
                     !.idTemplate = [base |-> "evt", placeholder |-> TRUE],
                     !.endDate = 7]

SeriesItem(id, dataId, geo, eventSchedule) ==
  [null |-> FALSE, state |-> "updated", id |-> id,
   data |-> [NoData EXCEPT !.id = dataId, !.name = "series", !.location = geo,
                           !.eventSchedule = eventSchedule]]

OccurrenceItem(id, superEventId, startDate) ==
  [null |-> FALSE, state |-> "updated", id |-> id,
   data |-> [NoData EXCEPT !.id = id, !.startDate = startDate,
                           !.superEvent = [NoSuperEvent EXCEPT !.kind = "ref", !.ref = superEventId]]]

\* a series, one whose data carries another id than the item, one whose id
\* has the hash of the first, and a deleted one; all within reach of s1 only
SeriesItems ==
  {SeriesItem(idA, idA, 1, <<>>),
   SeriesItem(idA, idB, 1, <<>>),
   SeriesItem(idB, idB, 2, <<>>),
   [SeriesItem(idA, idA, 1, <<>>) EXCEPT !.state = "deleted"]}

OccurrenceItems ==
  {OccurrenceItem(idA, idA, NowThursday + HoursPerDay),
   OccurrenceItem(idB, idA, NowThursday + HoursPerDay),
   [OccurrenceItem(idA, idA, NowThursday + HoursPerDay) EXCEPT !.state = "deleted"]}

ItemsOf(feed) == IF feed = "series" THEN SeriesItems ELSE OccurrenceItems

ValidItem(feed) == CHOOSE item \in ItemsOf(feed) :
                     item.state = "updated" /\ item.id = idA /\ item.data.id = idA
                     /\ item.data.eventSchedule = <<>> /\ item.data.startDate # NowThursday - 1
BogusItem(feed) == [ValidItem(feed) EXCEPT !.state = "bogus"]

\* a longer page holds good items and at most one bad one: an item that is
\* null, or one whose state is neither updated nor deleted
BadItems(feed) == {NullItem, BogusItem(feed)}

ListsOfLength(n, feed) ==
  {[i \in 1..n |-> ValidItem(feed)]}
  \cup {[i \in 1..n |-> IF i = k THEN bad ELSE ValidItem(feed)] :
          k \in 1..n, bad \in BadItems(feed)}

\* the item lists a page of the feed may carry
ItemLists(feed) ==
  {<<>>} \cup {<<item>> : item \in ItemsOf(feed) \cup BadItems(feed)}
  \cup UNION {ListsOfLength(n, feed) : n \in 2..MaxItems}

\* the URLs a page may name as the next one: those the walk has been at, and
\* a new one
NextUrls == 1..(handed[walk] + 2)

Responses(feed) ==
  {[status |-> status, next |-> 1, itemsIsArray |-> TRUE, items |-> <<>>] : status \in {404, 500, 0}}
  \cup {[status |-> 200, next |-> next, itemsIsArray |-> TRUE, items |-> <<>>] : next \in {-1, 0}}
  \cup {[status |-> 200, next |-> 1, itemsIsArray |-> FALSE, items |-> <<>>]}
  \cup {[status |-> 200, next |-> next, itemsIsArray |-> TRUE, items |-> items] :
          next \in NextUrls, items \in ItemLists(feed)}

(***************************************************************************)
(* The item processors of geoSegmentV1: items.forEach(async (item) => ..). *)
(* forEach runs each callback up to its first await and drops the promise; *)
(* the rest of the callback is a task that goes on while the walker does.  *)
(* A task is [feed, ops]; an op is one awaited file operation:             *)
(* "writeSeries" (and then SESSION_SERIES_FILE_PATHS.push), "write",       *)
(* "append" (to a segment's index.txt) or "read" (a series file, and then  *)
(* the writes of the ScheduledSession).                                    *)
(***************************************************************************)
Op(op, path, content) == [op |-> op, path |-> path, content |-> content]

\* encodeURIComponent(id), of undefined when the id is missing
uriName(id) == IF id = NoId THEN [base |-> "undefined", at |-> -1] ELSE id
IndexName == [base |-> "index", at |-> -1]

getSessionSeriesFilePathV1(sessionSeriesId) == [dir |-> "sessionseries", file |-> uriName(sessionSeriesId)]

\* { ...scheduledSessionData, superEvent: sessionSeries }
linkScheduledSessionAndSessionSeries(scheduledSessionData, sessionSeries) ==
  [scheduledSessionData EXCEPT
     !.superEvent = [kind |-> "object", ref |-> sessionSeries.id, name |-> sessionSeries.name,
                     presentAsSlots |-> sessionSeries.presentAsSlots]]

RECURSIVE linkOps(_, _)
linkOps(linked, segmentIdentifiers) ==
  IF segmentIdentifiers = <<>> THEN <<>>
  ELSE << Op("write", [dir |-> Head(segmentIdentifiers), file |-> uriName(linked.id)], linked),
          Op("append", [dir |-> Head(segmentIdentifiers), file |-> IndexName], linked) >>
       \o linkOps(linked, Tail(segmentIdentifiers))

linkScheduledSessionAndSessionSeriesAndWrite(scheduledSessionData, sessionSeries) ==
  linkOps(linkScheduledSessionAndSessionSeries(scheduledSessionData, sessionSeries),
          sessionSeries.segment)

RECURSIVE linkAll(_, _)
linkAll(scheduledSessions, sessionSeries) ==
  IF scheduledSessions = <<>> THEN <<>>
  ELSE linkScheduledSessionAndSessionSeriesAndWrite(Head(scheduledSessions), sessionSeries)
       \o linkAll(Tail(scheduledSessions), sessionSeries)

\* one callback of processSessionSeriesItems: [hangs, ops]
sessionSeriesCallbackV1(item, nowMoment) ==
  IF item.null \/ item.state = "deleted"
     \/ (item.data.location = NoGeo /\ item.data.affiliatedLocation = NoGeo)
    THEN [hangs |-> FALSE, ops |-> <<>>]
  ELSE
    LET sessionSeriesData ==
          [item.data EXCEPT
             !.segment = segmentIdentifiersInRange(sessionSeriesPhysicalLocationGeoOf(item.data))]
        schedules == validateAndGenerate(sessionSeriesData.eventSchedule, nowMoment)
    IN IF sessionSeriesData.segment = <<>> THEN [hangs |-> FALSE, ops |-> <<>>]
       ELSE IF schedules.hangs THEN [hangs |-> TRUE, ops |-> <<>>]
       ELSE [hangs |-> FALSE,
             ops |-> <<Op("writeSeries", getSessionSeriesFilePathV1(item.id), sessionSeriesData)>>
                     \o linkAll(schedules.sessions, sessionSeriesData)]

\* one callback of processScheduledSessionItems; paths is SESSION_SERIES_FILE_PATHS
scheduledSessionCallbackV1(item, nowMoment, paths) ==
  IF item.null \/ item.state = "deleted" \/ item.data.startDate = NoDate
     \/ item.data.startDate < nowMoment
     \/ getSessionSeriesFilePathV1(item.data.superEvent.ref) \notin paths
    THEN [hangs |-> FALSE, ops |-> <<>>]
    ELSE [hangs |-> FALSE,
          ops |-> <<Op("read", getSessionSeriesFilePathV1(item.data.superEvent.ref), item.data)>>]

\* items.forEach(..): [hangs, tasks]
RECURSIVE forEachItem(_, _, _, _)
forEachItem(items, feed, nowMoment, paths) ==
  IF items = <<>> THEN [hangs |-> FALSE, tasks |-> <<>>]
  ELSE LET callback == IF feed = "series"
                         THEN sessionSeriesCallbackV1(Head(items), nowMoment)
                         ELSE scheduledSessionCallbackV1(Head(items), nowMoment, paths)
           rest == forEachItem(Tail(items), feed, nowMoment, paths)
       IN IF callback.hangs THEN [hangs |-> TRUE, tasks |-> <<>>]
          ELSE IF callback.ops = <<>> THEN rest
          ELSE [rest EXCEPT !.tasks = <<[feed |-> feed, ops |-> callback.ops]>> \o @]


(***************************************************************************)
(* The walker.                                                             *)
(***************************************************************************)
Scripts == {"geoSegment", "geoSegmentV1", "walkRpde"}

usesBackOffLibrary == script = "geoSegment"
Feeds == {"series", "occurrences"}
\* what is remembered of the last answer: where it came from, what
\* getFirehosePage threw, whether the items reached the item processor and,
\* if they did, the page's next field and the index of its first invalid
\* item (-1: none)
NoFetch == [feed |-> "", url |-> 0, next |-> 0, invalidIndex |-> -1, throws |-> "", handed |-> FALSE]

\* nothing was delivered outside a walk, no function is looked at on its own
NoDelivery == [items |-> <<>>, runs |-> 0]
NoArgument == [of |-> "none"]
NoResult == [of |-> "none"]

IndexFiles == IF script = "walkRpde" THEN {RpdeIndex} ELSE SegmentIds

Init ==
  /\ script \in Scripts
  /\ walk = "series"
  /\ pc = "ready"
  /\ nextUrl = 1
  /\ attemptNumber = 0
  /\ backoffTimeInSeconds = RETRY_BACKOFF_MIN
  /\ pageNum = 0
  /\ exitCode = -1
  /\ logs = {}
  /\ lastWait = 0
  /\ failuresOnPage = 0
  /\ lastFetch = NoFetch
  /\ handed = [feed \in Feeds |-> 0]
  /\ files = [path \in {} |-> NoData]
  /\ firstWriter = [path \in {} |-> NoId]
  /\ index = [name \in IndexFiles |-> <<>>]
  /\ pending = <<>>
  /\ sessionSeriesFilePaths = {}
  /\ now = NowThursday
  /\ delivered = NoDelivery
  /\ argument = NoArgument
  /\ result = NoResult

RECURSIVE power(_, _)
power(base, exponent) == IF exponent = 0 THEN 1 ELSE base * power(base, exponent - 1)

min(a, b) == IF a <= b THEN a ELSE b

\* exponential-backoff: the delay, in seconds, before attempt number attempt + 1
\* (delayFirstAttempt is false, there is no jitter)
backOffDelay(attempt) ==
  IF attempt = 0 THEN 0
  ELSE min(RETRY_BACKOFF_MIN_SECONDS * power(RETRY_BACKOFF_EXPONENTIATION_RATE, attempt - 1),
           RETRY_BACKOFF_MAX_SECONDS)

\* a faulty variant: one attempt too many
attemptLimitReachedLate(attempts) == attempts > numOfAttempts

\* exponential-backoff: attemptLimitReached, after the failed attempt was counted
attemptLimitReached(attempts) == attempts >= numOfAttempts

\* faulty variants: giving up at the first failure, and one doubling too late
backoffLimitReachedAtOnce(backoff) == backoff >= RETRY_BACKOFF_MIN
backoffLimitReachedLate(backoff) ==
  backoff > RETRY_BACKOFF_MAX * RETRY_BACKOFF_EXPONENTIATION_RATE

\* the hand-written loop: backoffTimeInSeconds > RETRY_BACKOFF_MAX
backoffLimitReached(backoff) == backoff > RETRY_BACKOFF_MAX

nextBackoff(backoff) == backoff * RETRY_BACKOFF_EXPONENTIATION_RATE

\* a faulty variant: the backoff of the page before is kept
backoffKeptAfterPage(backoff) == backoff

\* the hand-written loop, once a page is done: backoffTimeInSeconds = RETRY_BACKOFF_MIN
backoffAfterPage(backoff) == RETRY_BACKOFF_MIN

\* a faulty variant: the test the wrong way round
isEndOfFeedInverted(nextNextUrl, url) == nextNextUrl # url

\* nextNextUrl === nextUrl
isEndOfFeed(nextNextUrl, url) == nextNextUrl = url

notFoundError(url) == LogRecord("error", "notFound", NoId, NoId, NoHash, url)
retryWarning(url) == LogRecord("warn", "retrying", NoId, NoId, NoHash, url)
backoffLimitError(url) == LogRecord("error", "backoffLimitReached", NoId, NoId, NoHash, url)

running == pc \in {"ready", "fetching"}

pagesHanded == handed["series"] + handed["occurrences"]

\* the request leaves: await getFirehosePage(nextUrl) / await axios(pageUrl)
IssueFetch ==
  /\ UNCHANGED probeVars
  /\ pc = "ready"
  /\ pagesHanded < MaxPages
  /\ pc' = "fetching"
  /\ UNCHANGED <<script, walk, nextUrl, attemptNumber, backoffTimeInSeconds, pageNum,
                 exitCode, logs, lastWait, failuresOnPage, lastFetch, handed, files, firstWriter, index,
                 pending, sessionSeriesFilePaths, now>>

Fetched(response, throws, isHanded) ==
  [feed |-> walk, url |-> nextUrl,
   next |-> IF isHanded THEN response.next ELSE 0,
   invalidIndex |-> IF isHanded THEN findInvalidIndex(response.items) ELSE -1,
   throws |-> throws, handed |-> isHanded]

\* HTTP 404: the run ends at once
FetchNotFound ==
  /\ UNCHANGED probeVars
  /\ pc = "fetching"
  /\ \E response \in Responses(walk) :
       /\ getFirehosePage(response).throws = "Http404Error"
       /\ lastFetch' = Fetched(response, "Http404Error", FALSE)
  /\ pc' = "exited"
  /\ exitCode' = 1
  /\ logs' = logs \cup {notFoundError(nextUrl)}
  /\ attemptNumber' = IF usesBackOffLibrary THEN attemptNumber + 1 ELSE attemptNumber
  /\ failuresOnPage' = failuresOnPage + 1
  /\ UNCHANGED <<script, walk, nextUrl, backoffTimeInSeconds, pageNum, lastWait, handed,
                 files, firstWriter, index, pending, sessionSeriesFilePaths, now>>

\* a faulty variant: Http404Error is retried like any other error
isRetryableAny(throws) == throws # "none"

\* the catch block: every error but Http404Error leads to a retry
isRetryable(throws) == throws \in {"AxiosError", "IminValidationError"}

\* the fetch of nextUrl failed and the limit is not reached: wait, then the
\* same URL again
RetryAfter(throws) ==
  /\ pc' = "ready"
  /\ logs' = logs \cup {retryWarning(nextUrl)}
  /\ failuresOnPage' = failuresOnPage + 1
  /\ IF usesBackOffLibrary
       THEN /\ attemptNumber' = attemptNumber + 1
            /\ lastWait' = backOffDelay(attemptNumber + 1)
            /\ UNCHANGED backoffTimeInSeconds
       ELSE /\ lastWait' = backoffTimeInSeconds
            /\ backoffTimeInSeconds' = nextBackoff(backoffTimeInSeconds)
            /\ UNCHANGED attemptNumber
  /\ UNCHANGED <<script, walk, nextUrl, pageNum, exitCode, sessionSeriesFilePaths, now>>

limitReached ==
  IF usesBackOffLibrary THEN attemptLimitReached(attemptNumber + 1)
  ELSE backoffLimitReached(backoffTimeInSeconds)

FetchFails ==
  /\ UNCHANGED probeVars
  /\ pc = "fetching"
  /\ ~limitReached
  /\ \E response \in Responses(walk) :
       /\ isRetryable(getFirehosePage(response).throws)
       /\ lastFetch' = Fetched(response, getFirehosePage(response).throws, FALSE)
       /\ RetryAfter(getFirehosePage(response).throws)
  /\ UNCHANGED <<handed, files, firstWriter, index, pending>>

\* the fetch failed once more and the limit is reached: the run ends
BackoffExhausted ==
  /\ UNCHANGED probeVars
  /\ pc = "fetching"
  /\ limitReached
  /\ \E response \in Responses(walk) :
       /\ isRetryable(getFirehosePage(response).throws)
       /\ lastFetch' = Fetched(response, getFirehosePage(response).throws, FALSE)
  /\ pc' = "exited"
  /\ exitCode' = 1
  /\ logs' = logs \cup {retryWarning(nextUrl), backoffLimitError(nextUrl)}
  /\ attemptNumber' = IF usesBackOffLibrary THEN attemptNumber + 1 ELSE attemptNumber
  /\ failuresOnPage' = failuresOnPage + 1
  /\ UNCHANGED <<script, walk, nextUrl, backoffTimeInSeconds, pageNum, lastWait, handed,
                 files, firstWriter, index, pending, sessionSeriesFilePaths, now>>

outNow == [files |-> files, firstWriter |-> firstWriter, index |-> index, logs |-> logs,
           status |-> "ok"]

\* what the item processor returns for a valid page (geoSegmentV1: what it has
\* done by the time forEach returns, which is nothing)
processItems(items) ==
  CASE script = "geoSegment" /\ walk = "series" -> processSessionSeriesItems(outNow, items, now)
    [] script = "geoSegment" /\ walk = "occurrences" -> processScheduledSessionItems(outNow, items, now)
    [] script = "walkRpde" -> downloadPage(outNow, items, pageNum)
    [] OTHER ->
         [outNow EXCEPT !.status =
            IF forEachItem(items, walk, now, sessionSeriesFilePaths).hangs THEN "hung" ELSE "ok"]

spawnedTasks(items) ==
  IF script = "geoSegmentV1"
    THEN forEachItem(items, walk, now, sessionSeriesFilePaths).tasks
    ELSE <<>>

\* a valid page arrived and is handed to the item processor
Handing(response, out) ==
  /\ pc = "fetching"
  /\ response \in Responses(walk)
  /\ getFirehosePage(response).throws = "none"
  /\ out = processItems(response.items)
  /\ lastFetch' = Fetched(response, "none", TRUE)
  /\ handed' = [handed EXCEPT ![walk] = IF out.status = "crashed" /\ script = "walkRpde" THEN @ ELSE @ + 1]
  /\ files' = out.files
  /\ firstWriter' = out.firstWriter
  /\ index' = out.index

\* the page is not the last one: on to the page it names
PageAdvances ==
  /\ UNCHANGED probeVars
  /\ \E response \in Responses(walk) :
       LET out == processItems(response.items)
       IN /\ Handing(response, out)
          /\ out.status = "ok"
          /\ ~isEndOfFeed(response.next, nextUrl)
          /\ nextUrl' = response.next
          /\ pending' = pending \o spawnedTasks(response.items)
          /\ logs' = out.logs
  /\ pc' = "ready"
  /\ attemptNumber' = 0
  /\ backoffTimeInSeconds' = backoffAfterPage(backoffTimeInSeconds)
  /\ pageNum' = IF script = "walkRpde" THEN pageNum + 1 ELSE pageNum
  /\ lastWait' = 0
  /\ failuresOnPage' = 0
  /\ UNCHANGED <<script, walk, exitCode, sessionSeriesFilePaths, now>>

startsSecondWalk == script # "walkRpde" /\ walk = "series"

\* the page names itself as the next one: the walk is over
PageEndsWalk ==
  /\ UNCHANGED probeVars
  /\ \E response \in Responses(walk) :
       LET out == processItems(response.items)
       IN /\ Handing(response, out)
          /\ out.status = "ok"
          /\ isEndOfFeed(response.next, nextUrl)
          /\ pending' = pending \o spawnedTasks(response.items)
          /\ logs' = out.logs
  /\ IF startsSecondWalk
       THEN /\ walk' = "occurrences"
            /\ pc' = "ready"
            /\ nextUrl' = 1
            /\ attemptNumber' = 0
            /\ backoffTimeInSeconds' = RETRY_BACKOFF_MIN
            /\ lastWait' = 0
            /\ failuresOnPage' = 0
            /\ UNCHANGED exitCode
       ELSE /\ pc' = IF script = "geoSegmentV1" THEN "exited" ELSE "done"
            /\ exitCode' = 0
            /\ UNCHANGED <<walk, nextUrl, attemptNumber, backoffTimeInSeconds, lastWait,
                           failuresOnPage>>
  /\ UNCHANGED <<script, pageNum, sessionSeriesFilePaths, now>>

\* geoSegment: an exception leaves the item processor, or it never returns
ProcessorStops ==
  /\ UNCHANGED probeVars
  /\ script # "walkRpde"
  /\ \E response \in Responses(walk) :
       LET out == processItems(response.items)
       IN /\ Handing(response, out)
          /\ out.status # "ok"
          /\ pc' = out.status
          /\ logs' = out.logs
  /\ UNCHANGED <<script, walk, nextUrl, attemptNumber, backoffTimeInSeconds, pageNum, exitCode,
                 lastWait, failuresOnPage, pending, sessionSeriesFilePaths, now>>

\* walkRpde: an exception inside downloadPage, after the page was validated,
\* lands in the same catch as a failed fetch
SaveFails ==
  /\ UNCHANGED probeVars
  /\ script = "walkRpde"
  /\ \E response \in Responses(walk) :
       LET out == processItems(response.items)
       IN /\ Handing(response, out)
          /\ out.status = "crashed"
  /\ IF limitReached
       THEN /\ pc' = "exited"
            /\ exitCode' = 1
            /\ logs' = logs \cup {retryWarning(nextUrl), backoffLimitError(nextUrl)}
            /\ failuresOnPage' = failuresOnPage + 1
            /\ UNCHANGED <<script, walk, nextUrl, attemptNumber, backoffTimeInSeconds, pageNum,
                           lastWait, sessionSeriesFilePaths, now>>
       ELSE RetryAfter("TypeError")
  /\ UNCHANGED pending

\* geoSegmentV1: one awaited file operation of a task completes
runOp(task) ==
  LET op == Head(task.ops)
  IN CASE op.op = "read" ->
            [files |-> files, writers |-> firstWriter, index |-> index,
             paths |-> sessionSeriesFilePaths,
             ops |-> linkScheduledSessionAndSessionSeriesAndWrite(
                       op.content, readJsonNullIfNotExists(files, op.path))]
       [] op.op = "append" ->
            [files |-> files, writers |-> firstWriter,
             index |-> [index EXCEPT ![op.path.dir] = Append(@, uriName(op.content.id))],
             paths |-> sessionSeriesFilePaths, ops |-> Tail(task.ops)]
       [] op.op = "writeSeries" ->
            [files |-> writeJson(files, op.path, op.content),
             writers |-> noteFirstWriter(firstWriter, op.path, op.path.file), index |-> index,
             paths |-> sessionSeriesFilePaths \cup {op.path}, ops |-> Tail(task.ops)]
       [] OTHER ->
            [files |-> writeJson(files, op.path, op.content),
             writers |-> noteFirstWriter(firstWriter, op.path, op.path.file), index |-> index,
             paths |-> sessionSeriesFilePaths, ops |-> Tail(task.ops)]

removeAt(list, i) == SubSeq(list, 1, i - 1) \o SubSeq(list, i + 1, Len(list))

TaskStep ==
  /\ UNCHANGED probeVars
  /\ running
  /\ \E i \in 1..Len(pending) :
       LET after == runOp(pending[i])
       IN /\ files' = after.files
          /\ firstWriter' = after.writers
          /\ index' = after.index
          /\ sessionSeriesFilePaths' = after.paths
          /\ pending' = IF after.ops = <<>> THEN removeAt(pending, i)
                        ELSE [pending EXCEPT ![i].ops = after.ops]
  /\ UNCHANGED <<script, walk, pc, nextUrl, attemptNumber, backoffTimeInSeconds, pageNum,
                 exitCode, logs, lastWait, failuresOnPage, lastFetch, handed, now>>

Next ==
  \/ IssueFetch
  \/ FetchNotFound
  \/ FetchFails
  \/ BackoffExhausted
  \/ PageAdvances
  \/ PageEndsWalk
  \/ ProcessorStops
  \/ SaveFails
  \/ TaskStep

Spec == Init /\ [][Next]_vars

(***************************************************************************)
(* Properties of the walker.                                               *)
(***************************************************************************)
\* a step in which the item processor was given a page and returned
processorReturned == handed' # handed /\ pc' \notin {"crashed", "hung"}

walkEndsNormally ==
  IF startsSecondWalk THEN walk' = "occurrences" /\ pc' = "ready"
  ELSE pc' \in {"done", "exited"} /\ exitCode' = 0

\* C1: when the item processor has returned from a page that was fetched from
\* the walker's URL, the walk ends normally if the page's next URL is the URL
\* it was requested from, and goes on to that next URL otherwise; a walk that
\* is over fetches nothing more.
WalkerTermination ==
  [][ /\ processorReturned =>
           /\ lastFetch'.handed /\ lastFetch'.feed = walk /\ lastFetch'.url = nextUrl
           /\ IF lastFetch'.next = nextUrl
                THEN walkEndsNormally
                ELSE walk' = walk /\ pc' = "ready" /\ nextUrl' = lastFetch'.next
      /\ walk = "occurrences" =>
           walk' = "occurrences" /\ handed'["series"] = handed["series"]
      /\ ~running => UNCHANGED <<pc, lastFetch, handed, nextUrl, files, index>> ]_vars

\* a run that ended normally, on its last page, after a page that was not the last
WalkerTerminationReached ==
  /\ pc = "done"
  /\ pagesHanded = MaxPages
  /\ lastFetch.handed
  /\ lastFetch.next = lastFetch.url

\* C2: when the walker has issued a fetch, or has ended the run normally, no
\* file operation of a page handed earlier is still to be done.
PerPageCompletion == (pc = "fetching" \/ exitCode = 0) => pending = <<>>

\* C3: while the occurrences feed is walked, no write of a series item is
\* still to be done.
WalkOrdering ==
  walk = "occurrences" => \A i \in 1..Len(pending) : pending[i].feed # "series"

\* C4: a fetch answered 404 ends the run in that very step with exit status 1
\* and an error naming the URL, whatever the number of failures so far; it
\* processes nothing, and nothing happens after it.
NotFoundIsFatal ==
  [][ /\ lastFetch'.throws = "Http404Error" =>
           /\ pc' = "exited" /\ exitCode' = 1
           /\ notFoundError(nextUrl) \in logs'
           /\ lastFetch'.url = nextUrl
           /\ UNCHANGED <<nextUrl, handed, files, index, pending>>
      /\ lastFetch.throws = "Http404Error" => UNCHANGED vars ]_vars

\* a 404 at the first attempt on a page, with every retry still available
NotFoundAtFirstAttempt ==
  /\ lastFetch.throws = "Http404Error"
  /\ failuresOnPage = 1
  /\ pc = "exited"

\* C5: a fetch that fails with a transport error or a validation error leaves
\* the walker's URL, the files and the listings as they were and hands no
\* item to the processor; the run goes on, unless the failure is at least the
\* numOfAttempts-th in a row on the page; and the request answered next is for
\* the URL that failed.
RetrySameUrl ==
  [][ /\ (failuresOnPage' # failuresOnPage /\ isRetryable(lastFetch'.throws)) =>
           /\ UNCHANGED <<walk, nextUrl, handed, files, index, pending>>
           /\ ~lastFetch'.handed
           /\ \/ pc' = "ready"
              \/ pc' = "exited" /\ failuresOnPage' >= numOfAttempts
      /\ (isRetryable(lastFetch.throws) /\ lastFetch' # lastFetch) =>
           lastFetch'.url = lastFetch.url /\ lastFetch'.feed = lastFetch.feed ]_vars

\* the request for a page is out again after a validation error on that page,
\* later in a walk
RetriedAfterValidationError ==
  /\ lastFetch.throws = "IminValidationError"
  /\ pc = "fetching"
  /\ failuresOnPage >= 1
  /\ handed[walk] >= 1

\* C6, as the code has it: in the hand-written loop backoffTimeInSeconds is
\* at least RETRY_BACKOFF_MIN and at most twice RETRY_BACKOFF_MAX, and no wait
\* is longer than RETRY_BACKOFF_MAX.
BackoffBounded ==
  ~usesBackOffLibrary =>
    /\ backoffTimeInSeconds >= RETRY_BACKOFF_MIN
    /\ backoffTimeInSeconds <= RETRY_BACKOFF_MAX * RETRY_BACKOFF_EXPONENTIATION_RATE
    /\ lastWait <= RETRY_BACKOFF_MAX

\* C6, as the specification has it: in the hand-written loop
\* backoffTimeInSeconds is at least RETRY_BACKOFF_MIN and at most
\* RETRY_BACKOFF_MAX.
BackoffAtMostMax ==
  ~usesBackOffLibrary =>
    /\ backoffTimeInSeconds >= RETRY_BACKOFF_MIN
    /\ backoffTimeInSeconds <= RETRY_BACKOFF_MAX

\* the longest wait is over and the backoff was doubled once more
BackoffPastMax ==
  /\ ~usesBackOffLibrary
  /\ lastWait = RETRY_BACKOFF_MAX
  /\ backoffTimeInSeconds = RETRY_BACKOFF_MAX * RETRY_BACKOFF_EXPONENTIATION_RATE

\* failed fetches that were followed by a wait, on the walker's page
waitsOnPage == IF exitCode = 1 THEN failuresOnPage - 1 ELSE failuresOnPage

\* C7: the retry state counts the failures on the walker's current page only:
\* the library's attemptNumber is their number, the loop's backoff is
\* RETRY_BACKOFF_MIN doubled once per wait on this page, and the wait before
\* the first retry of a page is RETRY_BACKOFF_MIN.
BackoffReset ==
  /\ usesBackOffLibrary => attemptNumber = failuresOnPage
  /\ ~usesBackOffLibrary =>
       backoffTimeInSeconds =
         RETRY_BACKOFF_MIN * power(RETRY_BACKOFF_EXPONENTIATION_RATE, waitsOnPage)
  /\ (running /\ failuresOnPage = 0) => lastWait = 0
  /\ (running /\ failuresOnPage = 1) => lastWait = RETRY_BACKOFF_MIN

\* the first failure on a page, in a walk whose first page had failed too
FirstRetryAfterEarlierFailures ==
  /\ ~usesBackOffLibrary
  /\ nextUrl # 1
  /\ retryWarning(1) \in logs
  /\ handed[walk] >= 1
  /\ failuresOnPage = 1
  /\ lastWait = RETRY_BACKOFF_MIN
  /\ pc = "ready"

\* a failed fetch that is not a 404
failsRetryably == failuresOnPage' # failuresOnPage /\ isRetryable(lastFetch'.throws)

\* with this failure counted by the library; before it, in the loop
retriesAreUsedUp ==
  IF usesBackOffLibrary THEN attemptNumber' = numOfAttempts
  ELSE backoffTimeInSeconds > RETRY_BACKOFF_MAX

\* C8: a fetch that fails with the retries of its page used up (the tenth
\* attempt in the library, a backoff past RETRY_BACKOFF_MAX in the loop) ends
\* the run with exit status 1 and an error naming the page, and no other
\* failure ends it so; attempts and backoff never pass these limits; the
\* walker's URL changes only by a page fetched from it and handed on.
ExhaustionIsFatal ==
  [][ /\ failsRetryably =>
           (retriesAreUsedUp <=>
              pc' = "exited" /\ exitCode' = 1 /\ backoffLimitError(nextUrl) \in logs')
      /\ attemptNumber' <= numOfAttempts
      /\ backoffTimeInSeconds' <= RETRY_BACKOFF_MAX * RETRY_BACKOFF_EXPONENTIATION_RATE
      /\ (nextUrl' # nextUrl \/ walk' # walk) =>
           /\ lastFetch'.handed /\ lastFetch'.throws = "none"
           /\ lastFetch'.url = nextUrl /\ lastFetch'.feed = walk ]_vars

\* the library gave up at the tenth failure on a page
ExhaustedByLibrary ==
  /\ usesBackOffLibrary
  /\ pc = "exited"
  /\ exitCode = 1
  /\ attemptNumber = numOfAttempts
  /\ failuresOnPage = numOfAttempts
  /\ backoffLimitError(nextUrl) \in logs

\* C9: a page whose items reached the item processor has a next field that
\* is a non-empty string and no item, at any index, that is null or whose
\* state is neither updated nor deleted.
PageValidation ==
  lastFetch.handed => lastFetch.next >= 1 /\ lastFetch.invalidIndex = -1

\* C10: in geoSegment the record at a path holds the id of the item first
\* written there, and the content at a path changes only when that item is
\* written again.
NoSilentOverwrite ==
  [][ script = "geoSegment" =>
        \A path \in DOMAIN firstWriter' :
          /\ files'[path].id = firstWriter'[path]
          /\ (path \in DOMAIN files /\ files'[path] # files[path]) =>
               files[path].id = firstWriter[path] ]_vars

\* the record of the series item idA was replaced by that of idB, and no
\* warning was logged
SilentOverwriteReached ==
  /\ script = "geoSegment"
  /\ \E path \in DOMAIN firstWriter :
       /\ firstWriter[path] = idA
       /\ files[path].location = 2
  /\ \A record \in logs : record.kind # "hashClash"

(***************************************************************************)
(* The store of geoSegment on its own: the item processors are given one   *)
(* item after the other, SessionSeries first and ScheduledSessions after   *)
(* them as main walks the two feeds, and main may then be run once more on *)
(* the same items.                                                         *)
(***************************************************************************)
\* items given to the item processors in one run
MaxPuts == 3

\* every Monday 18:00 to 19:00, with no end
WeeklySchedule == [MondaySchedule EXCEPT !.endDate = NoDate]

\* a place out of reach of every segment
FarAway == 20

\* an online-only series, which has no place
VirtualSeriesItem ==
  [SeriesItem(idC, idC, NoGeo, <<>>) EXCEPT !.data.eventAttendanceMode = OnlineEventAttendanceMode]

\* a schedule without endTime, and an entry of eventSchedule of another type
ScheduleWithoutEndTime == [WeeklySchedule EXCEPT !.endTime = NoTime, !.idTemplate.base = "bad"]
OtherSchedule == [WeeklySchedule EXCEPT !.type = "Other", !.idTemplate.base = "other"]

\* a series near s1, the same series moved to where s1 and s2 overlap, the
\* same series moved out of reach, one whose data carries another id than the
\* item, one whose id has the hash of the first, one with a schedule, one
\* with three entries in eventSchedule, and an online-only one
StoreSeriesItems ==
  {SeriesItem(idA, idA, 1, <<>>),
   SeriesItem(idA, idA, 4, <<>>),
   SeriesItem(idA, idA, FarAway, <<>>),
   SeriesItem(idA, idB, 1, <<>>),
   SeriesItem(idB, idB, 4, <<>>),
   SeriesItem(idC, idC, 4, <<WeeklySchedule>>),
   SeriesItem(idC, idC, 1, <<ScheduleWithoutEndTime, OtherSchedule, WeeklySchedule>>),
   VirtualSeriesItem}

\* an occurrence of series a, the same one moved by a day, the same one with
\* a place of its own, the same one with a name of its own, one whose id has
\* the hash of the first, one of series b, and one two weeks ahead
StoreOccurrenceItems ==
  {OccurrenceItem(idA, idA, NowThursday + HoursPerDay),
   OccurrenceItem(idA, idA, NowThursday + 2 * HoursPerDay),
   [OccurrenceItem(idA, idA, NowThursday + HoursPerDay) EXCEPT !.data.location = FarAway],
   [OccurrenceItem(idA, idA, NowThursday + HoursPerDay) EXCEPT !.data.name = "occurrence"],
   OccurrenceItem(idB, idA, NowThursday + HoursPerDay),
   OccurrenceItem(idC, idB, NowThursday + HoursPerDay),
   OccurrenceItem(idC, idA, NowThursday + 2 * DaysPerWeek * HoursPerDay)}

Delivery(feed, item) == [feed |-> feed, item |-> item]

\* the output directory where geoSegment.js never ran
NoOutput ==
  [files |-> [path \in {} |-> NoData], firstWriter |-> [path \in {} |-> NoId],
   index |-> [segmentIdentifier \in SegmentIds |-> <<>>], logs |-> {}, status |-> "ok"]

\* a faulty variant: the files of the run before are kept, the listings and
\* the log are made empty
emptyOrMakeOutputDirectoriesKeepingFiles(out) ==
  [out EXCEPT !.index = [segmentIdentifier \in SegmentIds |-> <<>>], !.logs = {}]

\* fs.emptyDir(output), then the empty index.txt of every segment and log.txt
emptyOrMakeOutputDirectories(out) ==
  [files |-> [path \in {} |-> NoData], firstWriter |-> [path \in {} |-> NoId],
   index |-> [segmentIdentifier \in SegmentIds |-> <<>>], logs |-> {}, status |-> "ok"]

\* processItemsFn on a page with this one item
processDelivery(out, delivery, nowMoment) ==
  IF delivery.feed = "series"
    THEN processSessionSeriesItems(out, <<delivery.item>>, nowMoment)
    ELSE processScheduledSessionItems(out, <<delivery.item>>, nowMoment)

RECURSIVE processDeliveries(_, _, _)
processDeliveries(out, deliveries, nowMoment) ==
  IF deliveries = <<>> \/ out.status # "ok" THEN out
  ELSE processDeliveries(processDelivery(out, Head(deliveries), nowMoment),
                         Tail(deliveries), nowMoment)

\* main: the output directories are emptied, then the two feeds are walked
runMain(out, deliveries, nowMoment) ==
  processDeliveries(emptyOrMakeOutputDirectories(out), deliveries, nowMoment)

InitStore ==
  /\ script = "geoSegment"
  /\ walk = "series"
  /\ pc = "ready"
  /\ nextUrl = 1
  /\ attemptNumber = 0
  /\ backoffTimeInSeconds = RETRY_BACKOFF_MIN
  /\ pageNum = 0
  /\ exitCode = -1
  /\ lastWait = 0
  /\ failuresOnPage = 0
  /\ lastFetch = NoFetch
  /\ handed = [feed \in Feeds |-> 0]
  /\ files = emptyOrMakeOutputDirectories(NoOutput).files
  /\ firstWriter = emptyOrMakeOutputDirectories(NoOutput).firstWriter
  /\ index = emptyOrMakeOutputDirectories(NoOutput).index
  /\ logs = emptyOrMakeOutputDirectories(NoOutput).logs
  /\ pending = <<>>
  /\ sessionSeriesFilePaths = {}
  /\ now = NowThursday
  /\ delivered = [items |-> <<>>, runs |-> 1]
  /\ argument = NoArgument
  /\ result = NoResult

walkerVars == <<script, pc, nextUrl, attemptNumber, backoffTimeInSeconds, pageNum, exitCode,
                lastWait, failuresOnPage, lastFetch, handed, pending, sessionSeriesFilePaths,
                now, argument, result>>

Delivering(delivery) ==
  LET out == processDelivery(outNow, delivery, now)
  IN /\ delivered.runs = 1
     /\ Len(delivered.items) < MaxPuts
     /\ out.status = "ok"
     /\ files' = out.files
     /\ firstWriter' = out.firstWriter
     /\ index' = out.index
     /\ logs' = out.logs
     /\ delivered' = [delivered EXCEPT !.items = Append(@, delivery)]
     /\ UNCHANGED walkerVars

\* a SessionSeries item reaches processSessionSeriesItems
DeliverSessionSeries ==
  /\ walk = "series"
  /\ \E item \in StoreSeriesItems : Delivering(Delivery("series", item))
  /\ UNCHANGED walk

\* a ScheduledSession item reaches processScheduledSessionItems; the
\* SessionSeries feed is over
DeliverScheduledSession ==
  /\ \E item \in StoreOccurrenceItems : Delivering(Delivery("occurrences", item))
  /\ walk' = "occurrences"

\* geoSegment.js is run once more, on the same feed and at the same time
RunAgain ==
  /\ delivered.runs = 1
  /\ delivered.items # <<>>
  /\ LET out == runMain(outNow, delivered.items, now)
     IN /\ out.status = "ok"
        /\ files' = out.files
        /\ firstWriter' = out.firstWriter
        /\ index' = out.index
        /\ logs' = out.logs
  /\ delivered' = [delivered EXCEPT !.runs = 2]
  /\ UNCHANGED walkerVars
  /\ UNCHANGED walk

NextStore ==
  \/ DeliverSessionSeries
  \/ DeliverScheduledSession
  \/ RunAgain

SpecStore == InitStore /\ [][NextStore]_vars

(***************************************************************************)
(* Properties of the store.                                                *)
(***************************************************************************)
elementsOf(list) == {list[i] : i \in 1..Len(list)}

isOccurrencePath(path) == path.dir \in SegmentIds /\ path.file # ModelName

\* this step gives one more item to an item processor
isDelivery == delivered'.runs = 1 /\ Len(delivered'.items) = Len(delivered.items) + 1
lastDelivered == delivered'.items[Len(delivered'.items)]

\* the SessionSeries item gets as far as the existence check
reachesSeriesStoreCheck(item) ==
  /\ ~isDroppedSessionSeries(item)
  /\ segmentIdentifiersInRange(sessionSeriesPhysicalLocationGeoOf(item.data)) # <<>>

\* the series record the ScheduledSession item resolves to, and whether the
\* item gets as far as the merge
resolvedSessionSeries(item) ==
  readJsonNullIfNotExists(files, getSessionSeriesFilePath(hashString(item.data.superEvent.ref)))

reachesMerge(item) ==
  /\ ~isDroppedScheduledSession(item, now)
  /\ exists(files, getSessionSeriesFilePath(hashString(item.data.superEvent.ref)))
  /\ item.data.superEvent.ref = resolvedSessionSeries(item).id

\* the paths the delivered item is put at, and the id it is put under
putPaths(delivery) ==
  IF delivery.feed = "series"
    THEN IF reachesSeriesStoreCheck(delivery.item)
           THEN {getSessionSeriesFilePath(hashString(delivery.item.id))}
           ELSE {}
  ELSE IF reachesMerge(delivery.item)
    THEN LET sessionSeries == resolvedSessionSeries(delivery.item)
             merged == mergeScheduledSessionAndSessionSeries(delivery.item.data, sessionSeries)
         IN {getScheduledSessionFilePath(segmentIdentifier, hashString(merged.id)) :
               segmentIdentifier \in elementsOf(sessionSeries.segment)}
  ELSE {}

putId(delivery) ==
  IF delivery.feed = "series" THEN delivery.item.id
  ELSE mergeScheduledSessionAndSessionSeries(delivery.item.data,
                                             resolvedSessionSeries(delivery.item)).id

\* C11: a put that finds, at its path, an object whose stored id is the id
\* being written writes nothing: the file at that path stays as it was, for
\* series records and for occurrence files.
AlreadyIdenticalPutWritesNothing ==
  [][isDelivery =>
       \A path \in putPaths(lastDelivered) :
         (exists(files, path) /\ files[path].id = putId(lastDelivered))
           => files'[path] = files[path]]_vars

\* the series a was delivered twice, the second time at another place, and
\* the record holds the second place
IdenticalPutRewrote ==
  /\ Len(delivered.items) = 2
  /\ delivered.items[1] = Delivery("series", SeriesItem(idA, idA, 1, <<>>))
  /\ delivered.items[2] = Delivery("series", SeriesItem(idA, idA, 4, <<>>))
  /\ files[getSessionSeriesFilePath(hashString(idA))].location = 4

\* C12: a series item whose feed id was the first written at its path, and is
\* delivered again, is not reported as a hash clash and is written, whatever
\* id its data carries.
RedeliveryIsNoCollision ==
  [][(isDelivery /\ lastDelivered.feed = "series") =>
       \A path \in putPaths(lastDelivered) :
         (exists(files, path) /\ firstWriter[path] = lastDelivered.item.id)
           => /\ hashClashWarning(files[path].id, lastDelivered.item.id,
                                  hashString(lastDelivered.item.id)) \notin logs'
              /\ files'[path].id = lastDelivered.item.data.id]_vars

\* the same item, whose data carries the id b, was delivered twice and the
\* second delivery was reported as a clash of b and a
RedeliveryReportedAsCollision ==
  /\ Len(delivered.items) = 2
  /\ delivered.items[1] = Delivery("series", SeriesItem(idA, idB, 1, <<>>))
  /\ delivered.items[2] = delivered.items[1]
  /\ hashClashWarning(idB, idA, hashString(idA)) \in logs

OccurrenceWithinForwardWindow ==
  \A path \in DOMAIN files :
    isOccurrencePath(path) =>
      /\ files[path].startDate >= now
      /\ files[path].startDate <= now + WEEKS_IN_FUTURE_TIME_WINDOW * DaysPerWeek * HoursPerDay

\* a generated occurrence is persisted that starts more than a week ahead
GeneratedBeyondForwardWindow ==
  \E path \in DOMAIN files :
    /\ isOccurrencePath(path)
    /\ files[path].id.base = "evt"
    /\ files[path].startDate > now + WEEKS_IN_FUTURE_TIME_WINDOW * DaysPerWeek * HoursPerDay

(***************************************************************************)
(* generateSegmentIdentifiersForMergedScheduledSession: the segments of a  *)
(* merged ScheduledSession, by attendance mode and by distance.  A config  *)
(* segment is [identifier, position, radius, attendanceModeFilter].        *)
(***************************************************************************)

\* EventAttendanceMode defaults to offline
getEventsEventAttendanceMode(item) ==
  IF item.eventAttendanceMode = NoMode THEN OfflineEventAttendanceMode
  ELSE item.eventAttendanceMode

doesEventSupportOnline(item) ==
  getEventsEventAttendanceMode(item) \in {OnlineEventAttendanceMode, MixedEventAttendanceMode}

\* a faulty variant: every event counts as one that can be attended in person
doesEventSupportOfflineAlways(item) == TRUE

doesEventSupportOffline(item) ==
  getEventsEventAttendanceMode(item) \in {OfflineEventAttendanceMode, MixedEventAttendanceMode}

AttendanceModeFilters == {"all", "physical-only", "virtual-only"}

\* a faulty variant: the two restricting filters are exchanged
matchesAttendanceModeExchanged(segment, doesSupportOnline, doesSupportOffline) ==
  CASE segment.attendanceModeFilter = "all" -> TRUE
    [] segment.attendanceModeFilter = "physical-only" -> doesSupportOnline
    [] segment.attendanceModeFilter = "virtual-only" -> doesSupportOffline
    [] OTHER -> FALSE

\* the switch on segment.attendanceModeFilter
matchesAttendanceMode(segment, doesSupportOnline, doesSupportOffline) ==
  CASE segment.attendanceModeFilter = "all" -> TRUE
    [] segment.attendanceModeFilter = "physical-only" -> doesSupportOffline
    [] segment.attendanceModeFilter = "virtual-only" -> doesSupportOnline
    [] OTHER -> FALSE

\* a faulty variant: the early return is never taken
isOfflineWithoutPlaceNever(physicalLocationGeo, doesSupportOffline) == FALSE

\* if (!physicalLocationGeo && doesSupportOffline)
isOfflineWithoutPlace(physicalLocationGeo, doesSupportOffline) ==
  physicalLocationGeo = NoGeo /\ doesSupportOffline

\* [throws, identifiers]
generateSegmentIdentifiersForMergedScheduledSession(mergedScheduledSession, segments) ==
  LET physicalLocationGeo == sessionSeriesPhysicalLocationGeoOf(mergedScheduledSession)
      doesSupportOnline == doesEventSupportOnline(mergedScheduledSession)
      doesSupportOffline == doesEventSupportOffline(mergedScheduledSession)
      byMode == SelectSeq(segments, LAMBDA segment :
                  matchesAttendanceMode(segment, doesSupportOnline, doesSupportOffline))
      byPlace == SelectSeq(byMode, LAMBDA segment :
                   \/ physicalLocationGeo = NoGeo
                   \/ getDistance(physicalLocationGeo, segment.position) <= segment.radius * 1000)
  IN IF isOfflineWithoutPlace(physicalLocationGeo, doesSupportOffline)
       THEN [throws |-> FALSE, identifiers |-> <<>>]
     ELSE IF \E i \in 1..Len(segments) :
               segments[i].attendanceModeFilter \notin AttendanceModeFilters
       THEN [throws |-> TRUE, identifiers |-> <<>>]
     ELSE [throws |-> FALSE, identifiers |-> [i \in 1..Len(byPlace) |-> byPlace[i].identifier]]

(***************************************************************************)
(* The functions on their own: an argument is drawn, the function is       *)
(* called on it once.                                                      *)
(***************************************************************************)
\* entries of a byDay list, at most
MaxByDay == 2
\* segments of a configuration, at most
MaxSegments == 2

ListsUpTo(n, elements) == UNION {[1..k -> elements] : k \in 0..n}

\* Thursday 2024-01-04 10:00, Monday 2024-01-01 20:00, Sunday 2024-01-07 09:00
NowMoments == {NowThursday, 20, 6 * HoursPerDay + 9}

\* start dates: none, Wednesday 2024-01-10, Saturday 2024-02-10
ScheduleStartDates == {NoDate, 9, 40}
\* end dates: none, Wednesday 2024-01-03, Sunday 2024-01-07, Monday 2024-01-08,
\* Wednesday 2024-01-17
ScheduleEndDates == {NoDate, 2, 6, 7, 16}
\* the rest of a schedule: with and without a duration, with an idTemplate
\* that holds {startDate} and with one that does not
\* a session that goes on until 8 o'clock of the next morning
OvernightSchedule == [WeeklySchedule EXCEPT !.endTime = 8]

ScheduleRests ==
  {[WeeklySchedule EXCEPT !.duration = duration, !.idTemplate.placeholder = placeholder] :
     duration \in {NoDuration, "PT1H"}, placeholder \in BOOLEAN}
  \cup {OvernightSchedule}

\* schedules the validation accepts and schedules it does not; "Funday" names
\* no weekday
EventSchedules ==
  {[rest EXCEPT !.byDayIsArray = TRUE, !.byDay = byDay, !.startTime = startTime,
                !.startDate = startDate, !.endDate = endDate] :
     rest \in ScheduleRests,
     byDay \in ListsUpTo(MaxByDay, {"Monday", "Wednesday", "Sunday", "Funday"}),
     startTime \in {9, 18}, startDate \in ScheduleStartDates, endDate \in ScheduleEndDates}
  \cup
  {[rest EXCEPT !.byDayIsArray = FALSE, !.byDay = <<>>, !.startTime = startTime,
                !.startDate = startDate, !.endDate = endDate] :
     rest \in ScheduleRests,
     startTime \in {9, 18}, startDate \in ScheduleStartDates, endDate \in ScheduleEndDates}

ConfigSegment(position, attendanceModeFilter) ==
  [identifier |-> <<position, attendanceModeFilter>>, position |-> position, radius |-> 5,
   attendanceModeFilter |-> attendanceModeFilter]

ConfigSegments ==
  {ConfigSegment(position, filter) : position \in {0, 8}, filter \in AttendanceModeFilters}

MergedScheduledSessions ==
  [location : {NoGeo, 1, 5, 20}, affiliatedLocation : {NoGeo, 4},
   eventAttendanceMode : {NoMode, OfflineEventAttendanceMode, OnlineEventAttendanceMode,
                          MixedEventAttendanceMode, "other"}]

Arguments ==
  {[of |-> "generateDatesWithinTimeWindow", eventSchedule |-> eventSchedule] :
     eventSchedule \in EventSchedules}
  \cup
  {[of |-> "generateSegmentIdentifiersForMergedScheduledSession",
    mergedScheduledSession |-> mergedScheduledSession, segments |-> segments] :
     mergedScheduledSession \in MergedScheduledSessions,
     segments \in ListsUpTo(MaxSegments, ConfigSegments)}

InitFunctions ==
  /\ script = "geoSegment"
  /\ walk = "series"
  /\ pc = "ready"
  /\ nextUrl = 1
  /\ attemptNumber = 0
  /\ backoffTimeInSeconds = RETRY_BACKOFF_MIN
  /\ pageNum = 0
  /\ exitCode = -1
  /\ logs = {}
  /\ lastWait = 0
  /\ failuresOnPage = 0
  /\ lastFetch = NoFetch
  /\ handed = [feed \in Feeds |-> 0]
  /\ files = NoOutput.files
  /\ firstWriter = NoOutput.firstWriter
  /\ index = NoOutput.index
  /\ pending = <<>>
  /\ sessionSeriesFilePaths = {}
  /\ delivered = NoDelivery
  /\ argument \in Arguments
  /\ now \in IF argument.of = "generateDatesWithinTimeWindow" THEN NowMoments ELSE {NowThursday}
  /\ result = NoResult

callVars == <<script, walk, pc, nextUrl, attemptNumber, backoffTimeInSeconds, pageNum, exitCode,
              logs, lastWait, failuresOnPage, lastFetch, handed, files, firstWriter, index,
              pending, sessionSeriesFilePaths, now, delivered, argument>>

\* [...generateDatesWithinTimeWindow(eventSchedule)]
Expand ==
  /\ argument.of = "generateDatesWithinTimeWindow"
  /\ result = NoResult
  /\ result' = [of |-> argument.of,
                returned |-> generateDatesWithinTimeWindow(argument.eventSchedule, now)]
  /\ UNCHANGED callVars

\* generateSegmentIdentifiersForMergedScheduledSession(mergedScheduledSession, segments)
Segment ==
  /\ argument.of = "generateSegmentIdentifiersForMergedScheduledSession"
  /\ result = NoResult
  /\ result' = [of |-> argument.of,
                returned |-> generateSegmentIdentifiersForMergedScheduledSession(
                               argument.mergedScheduledSession, argument.segments)]
  /\ UNCHANGED callVars

NextFunctions ==
  \/ Expand
  \/ Segment

SpecFunctions == InitFunctions /\ [][NextFunctions]_vars

(***************************************************************************)
(* Properties of the functions.                                            *)
(***************************************************************************)
expanded == result.of = "generateDatesWithinTimeWindow"
segmented == result.of = "generateSegmentIdentifiersForMergedScheduledSession"

startDatesOf(sessions) == [i \in 1..Len(sessions) |-> sessions[i].startDate]

\* C17: generateDatesWithinTimeWindow ends for every schedule, and returns
\* nothing when the schedule names no weekday.
ExpansionTerminates ==
  expanded =>
    /\ ~result.returned.hangs
    /\ getIsoWeekdays(argument.eventSchedule) = <<>> => result.returned.sessions = <<>>

\* a schedule whose byDay names no weekday was expanded, and the expansion
\* never ends
ExpansionNeverEnds ==
  /\ expanded
  /\ argument.eventSchedule.byDay = <<"Funday">>
  /\ result.returned.hangs

\* C18: the start instants of one expansion of a schedule that the validation
\* accepts are strictly increasing in the order of emission.
ExpansionStrictlyIncreasing ==
  (expanded /\ isValidSchedule(argument.eventSchedule)) =>
    \A i, j \in 1..Len(result.returned.sessions) :
      i < j => result.returned.sessions[i].startDate < result.returned.sessions[j].startDate

\* a schedule that names Monday twice was expanded and the first two
\* occurrences start at the same instant
SameStartEmittedTwice ==
  /\ expanded
  /\ argument.eventSchedule.byDay = <<"Monday", "Monday">>
  /\ Len(result.returned.sessions) >= 2
  /\ result.returned.sessions[1].startDate = result.returned.sessions[2].startDate

\* the schedule of the worked example: Monday and Wednesday at 18:00, no
\* start date and no end date, looked at on Thursday 2024-01-04 10:00
isWorkedExample ==
  /\ argument.of = "generateDatesWithinTimeWindow"
  /\ argument.eventSchedule.byDayIsArray
  /\ argument.eventSchedule.byDay = <<"Monday", "Wednesday">>
  /\ argument.eventSchedule.startTime = 18
  /\ argument.eventSchedule.startDate = NoDate
  /\ argument.eventSchedule.endDate = NoDate
  /\ now = NowThursday

\* C19: the worked example gives two occurrences, Monday 2024-01-08 18:00 and
\* Wednesday 2024-01-10 18:00, and no more.
WorkedExample ==
  (isWorkedExample /\ expanded) =>
    startDatesOf(result.returned.sessions)
      = <<7 * HoursPerDay + 18, 9 * HoursPerDay + 18>>

\* the worked example was expanded: the first two occurrences are the two of
\* the example, and six more follow, up to Wednesday 2024-01-31
WorkedExampleGoesOn ==
  /\ isWorkedExample
  /\ expanded
  /\ Len(result.returned.sessions) = 8
  /\ result.returned.sessions[1].startDate = 7 * HoursPerDay + 18
  /\ result.returned.sessions[2].startDate = 9 * HoursPerDay + 18
  /\ result.returned.sessions[8].startDate = 30 * HoursPerDay + 18

\* C20: an event that can only be attended online gets no segment whose
\* filter is physical-only, and one that can only be attended in person gets
\* no segment whose filter is virtual-only.
SegmentationExclusivity ==
  segmented =>
    \A i \in 1..Len(argument.segments) :
      argument.segments[i].identifier \in elementsOf(result.returned.identifiers) =>
        /\ ~(/\ getEventsEventAttendanceMode(argument.mergedScheduledSession)
                  = OnlineEventAttendanceMode
             /\ argument.segments[i].attendanceModeFilter = "physical-only")
        /\ ~(/\ getEventsEventAttendanceMode(argument.mergedScheduledSession)
                  = OfflineEventAttendanceMode
             /\ argument.segments[i].attendanceModeFilter = "virtual-only")

\* an online event near both kinds of segment got the virtual-only one alone
OnlineEventSegmented ==
  /\ segmented
  /\ argument.mergedScheduledSession.eventAttendanceMode = OnlineEventAttendanceMode
  /\ argument.mergedScheduledSession.location = 1
  /\ argument.segments = <<ConfigSegment(0, "physical-only"), ConfigSegment(0, "virtual-only")>>
  /\ result.returned.identifiers = <<ConfigSegment(0, "virtual-only").identifier>>

(***************************************************************************)
(* Properties of the segmentation of events without a place.               *)
(***************************************************************************)
\* offline, mixed, or no attendance mode at all
supportsOfflineAttendance(item) ==
  item.eventAttendanceMode \in {NoMode, OfflineEventAttendanceMode, MixedEventAttendanceMode}

hasNoCoordinate(item) == item.location = NoGeo /\ item.affiliatedLocation = NoGeo

\* C21: an event that can be attended in person (offline, mixed, or no
\* attendance mode, which counts as offline) and has a coordinate in neither
\* location nor affiliatedLocation is assigned to no segment, and the call
\* does not throw, whatever the segments and their filters are.
OfflineWithoutPlaceHasNoSegment ==
  (/\ segmented
   /\ supportsOfflineAttendance(argument.mergedScheduledSession)
   /\ hasNoCoordinate(argument.mergedScheduledSession))
    => result.returned = [throws |-> FALSE, identifiers |-> <<>>]

\* a mixed event without a coordinate, against two segments that admit it by
\* their filters ("all" and "virtual-only"), is in neither
MixedEventWithoutPlaceUnsegmented ==
  /\ segmented
  /\ argument.mergedScheduledSession.eventAttendanceMode = MixedEventAttendanceMode
  /\ hasNoCoordinate(argument.mergedScheduledSession)
  /\ Len(argument.segments) = 2
  /\ argument.segments[1].attendanceModeFilter = "all"
  /\ argument.segments[2].attendanceModeFilter = "virtual-only"
  /\ result.returned.identifiers = <<>>

(***************************************************************************)
(* Properties of the series filter and of the parent lookup.               *)
(***************************************************************************)
isSeriesDelivery == isDelivery /\ lastDelivered.feed = "series"
isOccurrenceDelivery == isDelivery /\ lastDelivered.feed = "occurrences"

nothingWritten == files' = files /\ index' = index /\ firstWriter' = firstWriter

\* the path of the series record the item's superEvent hashes to
parentPath(item) == getSessionSeriesFilePath(hashString(item.data.superEvent.ref))

\* the SessionSeries items with this feed id that were delivered so far, in order
seriesItemsOf(id) ==
  LET ofId == SelectSeq(delivered.items,
                        LAMBDA delivery : delivery.feed = "series" /\ delivery.item.id = id)
  IN [i \in 1..Len(ofId) |-> ofId[i].item]

isAssignedToNoSegment(item) ==
  /\ item.state # "deleted"
  /\ item.id # NoId
  /\ sessionSeriesPhysicalLocationGeoOf(item.data) # NoGeo
  /\ segmentIdentifiersInRange(sessionSeriesPhysicalLocationGeoOf(item.data)) = <<>>

\* the item itself writes no record, no occurrence, no listing line
ZeroSegmentSeriesWritesNothing ==
  [][(isSeriesDelivery /\ isAssignedToNoSegment(lastDelivered.item))
       => (nothingWritten /\ logs' = logs)]_vars

\* C22: a series item that is assigned to zero segments leaves no trace: its
\* delivery writes no series record, no occurrence and no listing line, and a
\* feed occurrence that names it as parent is dropped afterwards, nothing
\* being written for it.
ZeroSegmentSeriesLeavesNoTrace ==
  [][/\ (isSeriesDelivery /\ isAssignedToNoSegment(lastDelivered.item))
          => (nothingWritten /\ logs' = logs)
     /\ (/\ isOccurrenceDelivery
         /\ seriesItemsOf(lastDelivered.item.data.superEvent.ref) # <<>>
         /\ LET ofParent == seriesItemsOf(lastDelivered.item.data.superEvent.ref)
            IN isAssignedToNoSegment(ofParent[Len(ofParent)]))
          => nothingWritten]_vars

\* series a was stored near s1, then delivered again from out of reach of
\* every segment, and its occurrence from the feed is written under s1
OccurrenceOfMovedSeriesPersisted ==
  /\ delivered.items = << Delivery("series", SeriesItem(idA, idA, 1, <<>>)),
                          Delivery("series", SeriesItem(idA, idA, FarAway, <<>>)),
                          Delivery("occurrences", OccurrenceItem(idA, idA, NowThursday + HoursPerDay)) >>
  /\ exists(files, getScheduledSessionFilePath("s1", hashString(idA)))

\* the configured segments whose filter admits an online event
segmentsAdmittingOnline ==
  LET admitting == SelectSeq(Segments, LAMBDA segment :
                     segment.attendanceModeFilter \in {"all", "virtual-only"})
  IN [i \in 1..Len(admitting) |-> admitting[i].identifier]

isOnlineOnly(data) == data.eventAttendanceMode = OnlineEventAttendanceMode

\* C23: a non-deleted series item with an id and without a physical location
\* is retained when it is online-only, its record being stored with the
\* segments whose filter admits online items (unless another id holds its
\* path), and is dropped when it has no online capability.
SeriesRetention ==
  [][(/\ isSeriesDelivery
      /\ lastDelivered.item.state # "deleted"
      /\ lastDelivered.item.id # NoId
      /\ ~lastDelivered.item.data.presentAsSlots
      /\ sessionSeriesPhysicalLocationGeoOf(lastDelivered.item.data) = NoGeo)
       => LET item == lastDelivered.item
              path == getSessionSeriesFilePath(hashString(item.id))
          IN IF isOnlineOnly(item.data)
               THEN \/ (exists(files, path) /\ files[path].id # item.id)
                    \/ /\ exists(files', path)
                       /\ files'[path].id = item.data.id
                       /\ files'[path].segment = segmentsAdmittingOnline
               ELSE nothingWritten]_vars

\* the online-only series was delivered to an empty store, which stays empty
VirtualSeriesDropped ==
  /\ delivered.items = << Delivery("series", VirtualSeriesItem) >>
  /\ DOMAIN files = {}

\* C24: a feed occurrence whose parent hash resolves to no stored series, or
\* to a stored series whose id is not the occurrence's declared parent id, is
\* written under no segment and adds no listing line; where the ids differ
\* and the occurrence got as far as the lookup, the warning is logged.
ParentGuard ==
  [][(/\ isOccurrenceDelivery
      /\ \/ ~exists(files, parentPath(lastDelivered.item))
         \/ files[parentPath(lastDelivered.item)].id # lastDelivered.item.data.superEvent.ref)
       => LET item == lastDelivered.item
          IN /\ nothingWritten
             /\ (/\ exists(files, parentPath(item))
                 /\ ~isDroppedScheduledSession(item, now))
                  => superEventMismatchWarning(item.data.superEvent.ref,
                                               files[parentPath(item)].id,
                                               hashString(item.data.superEvent.ref)) \in logs']_vars

\* series b is stored where a would be, an occurrence of a was delivered:
\* the warning is logged and no occurrence file exists
MismatchedParentWarned ==
  /\ delivered.items = << Delivery("series", SeriesItem(idB, idB, 4, <<>>)),
                          Delivery("occurrences", OccurrenceItem(idA, idA, NowThursday + HoursPerDay)) >>
  /\ superEventMismatchWarning(idA, idB, hashString(idA)) \in logs
  /\ \A path \in DOMAIN files : ~isOccurrencePath(path)

\* the store as the first n delivered items left it
storeAfter(n) == processDeliveries(NoOutput, SubSeq(delivered.items, 1, n), now)

\* the n-th delivered item is a SessionSeries item with this feed id, and it
\* was written to the series store
persistedSeriesAt(n, id) ==
  LET delivery == delivered.items[n]
      path == getSessionSeriesFilePath(hashString(id))
      before == storeAfter(n - 1).files
  IN /\ delivery.feed = "series"
     /\ delivery.item.id = id
     /\ reachesSeriesStoreCheck(delivery.item)
     /\ ~(exists(before, path) /\ before[path].id # id)

persistedSeries(id) == \E n \in 1..Len(delivered.items) : persistedSeriesAt(n, id)

\* the occurrence is in the file of its id under every segment of the list,
\* but where a file of another id was there
persistedUnderEvery(segmentIdentifiers, id) ==
  \A segmentIdentifier \in elementsOf(segmentIdentifiers) :
    LET path == getScheduledSessionFilePath(segmentIdentifier, hashString(id))
    IN \/ (exists(files, path) /\ files[path].id # id)
       \/ (exists(files', path) /\ files'[path].id = id)

\* C25: a feed occurrence that is not deleted, has an id, starts between now
\* and now plus the window, and whose declared parent id is the feed id of a
\* series that was persisted in the series walk, is found by the hash lookup
\* and written under every segment listed in that series record, but where
\* another id holds the occurrence's own path.
ParentResolution ==
  [][(/\ isOccurrenceDelivery
      /\ ~isDroppedScheduledSession(lastDelivered.item, now)
      /\ persistedSeries(lastDelivered.item.data.superEvent.ref))
       => LET item == lastDelivered.item
          IN /\ exists(files, parentPath(item))
             /\ files[parentPath(item)].segment # <<>>
             /\ persistedUnderEvery(files[parentPath(item)].segment, item.data.id)]_vars

\* the claim for series whose data.id is the id of their feed item
ParentResolutionOfSeriesWithOneId ==
  [][(/\ isOccurrenceDelivery
      /\ ~isDroppedScheduledSession(lastDelivered.item, now)
      /\ persistedSeries(lastDelivered.item.data.superEvent.ref)
      /\ \A n \in 1..Len(delivered.items) :
           delivered.items[n].feed = "series"
             => delivered.items[n].item.id = delivered.items[n].item.data.id)
       => LET item == lastDelivered.item
          IN /\ exists(files, parentPath(item))
             /\ files[parentPath(item)].segment # <<>>
             /\ persistedUnderEvery(files[parentPath(item)].segment, item.data.id)]_vars

\* the series of feed id a was persisted, under data.id b; an occurrence of a
\* was delivered, and is reported as a mismatch and written nowhere
OccurrenceOfPersistedSeriesDropped ==
  /\ delivered.items = << Delivery("series", SeriesItem(idA, idB, 1, <<>>)),
                          Delivery("occurrences", OccurrenceItem(idA, idA, NowThursday + HoursPerDay)) >>
  /\ superEventMismatchWarning(idA, idB, hashString(idA)) \in logs
  /\ \A path \in DOMAIN files : ~isOccurrencePath(path)

(***************************************************************************)
(* Properties of the merge.                                                *)
(***************************************************************************)
\* the segments under which the file of this id is, in this output
persistedUnder(out, id) ==
  {segmentIdentifier \in SegmentIds :
     LET path == getScheduledSessionFilePath(segmentIdentifier, hashString(id))
     IN exists(out.files, path) /\ out.files[path].id = id}

\* places an occurrence may carry as its own: none, near s1, where s1 and s2
\* overlap, near s2 only, out of reach
OccurrenceLocations == {NoGeo, 1, 4, 10, FarAway}

\* C26: two feed occurrences of the same series that differ only in their own
\* location are persisted under the same segments: at any state of the store,
\* giving an occurrence another location does not change the segments its
\* file is under after it is processed.
OwnLocationDoesNotMatter ==
  \A item \in StoreOccurrenceItems : \A geo \in OccurrenceLocations :
    persistedUnder(processScheduledSessionItem(outNow, item, now), item.data.id)
      = persistedUnder(processScheduledSessionItem(
                         outNow, [item EXCEPT !.data.location = geo], now), item.data.id)

\* series a is near s1 only; its occurrence from the feed, whose own place is
\* out of reach of every segment, is under s1 with its own place, not under s2
FarOccurrenceUnderSegmentOfSeries ==
  /\ delivered.items =
       << Delivery("series", SeriesItem(idA, idA, 1, <<>>)),
          Delivery("occurrences",
                   [OccurrenceItem(idA, idA, NowThursday + HoursPerDay) EXCEPT !.data.location = FarAway]) >>
  /\ exists(files, getScheduledSessionFilePath("s1", hashString(idA)))
  /\ files[getScheduledSessionFilePath("s1", hashString(idA))].location = FarAway
  /\ ~exists(files, getScheduledSessionFilePath("s2", hashString(idA)))

\* the fields of an object but its name and the two that the store adds
spreadFields == DOMAIN NoData \ {"name", "fileIdentifier"}

\* the file of the delivered occurrence under a segment of its series
isWrittenHere(path) ==
  /\ isOccurrenceDelivery
  /\ reachesMerge(lastDelivered.item)
  /\ path \in putPaths(lastDelivered)
  /\ ~(exists(files, path) /\ files[path].id # putId(lastDelivered))

\* every field the occurrence has is the occurrence's in the written file
OccurrenceFieldsTakePrecedence ==
  [][\A path \in DOMAIN files' :
       isWrittenHere(path)
         => \A f \in spreadFields :
              lastDelivered.item.data[f] # NoData[f]
                => files'[path][f] = lastDelivered.item.data[f]]_vars

\* C27: in the merged occurrence every attribute the occurrence has takes the
\* occurrence's value, and the name is the occurrence's own name when it has
\* one, otherwise the name of the series' superEvent, otherwise the series'
\* name.
MergePrecedence ==
  [][\A path \in DOMAIN files' :
       isWrittenHere(path)
         => LET scheduledSessionData == lastDelivered.item.data
                sessionSeries == resolvedSessionSeries(lastDelivered.item)
            IN /\ \A f \in spreadFields :
                    scheduledSessionData[f] # NoData[f]
                      => files'[path][f] = scheduledSessionData[f]
               /\ files'[path].name =
                    IF scheduledSessionData.name # NoName THEN scheduledSessionData.name
                    ELSE IF sessionSeries.superEvent.kind = "object"
                            /\ sessionSeries.superEvent.name # NoName
                      THEN sessionSeries.superEvent.name
                    ELSE sessionSeries.name]_vars

\* the occurrence named "occurrence" is in its file under the series' name
OccurrenceNamedAfterSeries ==
  /\ delivered.items =
       << Delivery("series", SeriesItem(idA, idA, 1, <<>>)),
          Delivery("occurrences",
                   [OccurrenceItem(idA, idA, NowThursday + HoursPerDay) EXCEPT !.data.name = "occurrence"]) >>
  /\ exists(files, getScheduledSessionFilePath("s1", hashString(idA)))
  /\ files[getScheduledSessionFilePath("s1", hashString(idA))].name = "series"

(***************************************************************************)
(* Properties of the expansion of a schedule.                              *)
(***************************************************************************)
\* how often this start instant is among the emitted occurrences
timesEmitted(sessions, start) ==
  Cardinality({i \in 1..Len(sessions) : sessions[i].startDate = start})

\* the start instants the schedule has: one for each calendar day whose
\* weekday is in the schedule's weekday set and whose start instant is from
\* earliest to latest
qualifyingStarts(eventSchedule, nowMoment) ==
  LET earliest == earliestMomentOf(eventSchedule, nowMoment)
      latest == latestMomentOf(eventSchedule, nowMoment)
      weekdays == elementsOf(getIsoWeekdays(eventSchedule))
  IN {start \in {combineYYYYMMDDAndHHMMString(d, eventSchedule.startTime) :
                   d \in 0..(dateOf(latest) + 1)} :
        /\ isoWeekday(start) \in weekdays
        /\ earliest <= start
        /\ start <= latest}

isExact(eventSchedule, nowMoment, returned) ==
  /\ ~returned.hangs
  /\ \A start \in qualifyingStarts(eventSchedule, nowMoment) :
       timesEmitted(returned.sessions, start) = 1
  /\ \A i \in 1..Len(returned.sessions) :
       returned.sessions[i].startDate \in qualifyingStarts(eventSchedule, nowMoment)

\* C28: the expansion emits exactly one occurrence for each calendar day
\* whose weekday is in the schedule's weekday set and whose start instant is
\* from earliest to latest, and nothing else.
ExpansionExactness ==
  expanded => isExact(argument.eventSchedule, now, result.returned)

hasDistinctWeekdays(eventSchedule) ==
  LET weekdays == getIsoWeekdays(eventSchedule)
  IN /\ weekdays # <<>>
     /\ \A i, j \in 1..Len(weekdays) : i # j => weekdays[i] # weekdays[j]

\* the claim for the schedules whose list of weekdays is not empty and names
\* no weekday twice
ExpansionExactnessOfDistinctWeekdays ==
  (expanded /\ hasDistinctWeekdays(argument.eventSchedule))
    => isExact(argument.eventSchedule, now, result.returned)

\* byDay names Sunday twice: Sunday 2024-01-07 09:00, a qualifying day, is
\* emitted twice
QualifyingDayEmittedTwice ==
  /\ expanded
  /\ now = 6 * HoursPerDay + 9
  /\ argument.eventSchedule.byDay = <<"Sunday", "Sunday">>
  /\ argument.eventSchedule.startTime = 9
  /\ 6 * HoursPerDay + 9 \in qualifyingStarts(argument.eventSchedule, now)
  /\ timesEmitted(result.returned.sessions, 6 * HoursPerDay + 9) = 2

returnsNothing == result.returned = [hangs |-> FALSE, sessions |-> <<>>]

\* C29: the expansion returns the empty sequence whenever earliest is after
\* latest, in particular when the schedule's end date (at the start time, or
\* as a calendar day) is before now, and when its start date is beyond now
\* plus the window.
ExpansionShortCircuit ==
  expanded =>
    LET eventSchedule == argument.eventSchedule
        window == SCHEDULE_TIME_WINDOW_IN_WEEKS * DaysPerWeek * HoursPerDay
    IN /\ earliestMomentOf(eventSchedule, now) > latestMomentOf(eventSchedule, now)
            => returnsNothing
       /\ (/\ eventSchedule.endDate # NoDate
           /\ \/ eventSchedule.endDate < dateOf(now)
              \/ combineYYYYMMDDAndHHMMString(eventSchedule.endDate, eventSchedule.startTime) < now)
            => returnsNothing
       /\ (/\ eventSchedule.startDate # NoDate
           /\ combineYYYYMMDDAndHHMMString(eventSchedule.startDate, 0) > now + window)
            => returnsNothing

\* a schedule that ended on Wednesday 2024-01-03 and names no weekday, on
\* Thursday 2024-01-04: nothing is returned
EndedScheduleReturnsNothing ==
  /\ expanded
  /\ now = NowThursday
  /\ argument.eventSchedule.endDate = 2
  /\ argument.eventSchedule.byDay = <<"Funday">>
  /\ returnsNothing

\* what an expansion's occurrences carry: id, end date, duration
areEmittedAsClaimed(eventSchedule, sessions) ==
  /\ \A i \in 1..Len(sessions) :
       /\ sessions[i].id.base = eventSchedule.idTemplate.base
       /\ eventSchedule.idTemplate.placeholder => sessions[i].id.at = sessions[i].startDate
       /\ sessions[i].endDate = dateOf(sessions[i].startDate) * HoursPerDay + eventSchedule.endTime
       /\ sessions[i].duration = eventSchedule.duration
  /\ \A i, j \in 1..Len(sessions) : i # j => sessions[i].id # sessions[j].id

\* C30: each emitted occurrence has the id that the idTemplate gives with its
\* placeholder replaced by the occurrence's start instant, so that no two
\* occurrences of an expansion have the same id; its end date is the calendar
\* day of its start at the schedule's end time; and it has the schedule's
\* duration exactly when the schedule has one.
EmittedOccurrences ==
  expanded => areEmittedAsClaimed(argument.eventSchedule, result.returned.sessions)

\* the claim for the schedules that name no weekday twice and whose
\* idTemplate holds the placeholder
EmittedOccurrencesOfDistinctWeekdays ==
  (/\ expanded
   /\ hasDistinctWeekdays(argument.eventSchedule)
   /\ argument.eventSchedule.idTemplate.placeholder)
    => areEmittedAsClaimed(argument.eventSchedule, result.returned.sessions)

\* Monday and Wednesday with an idTemplate that has no {startDate}: the first
\* two occurrences start on different days and have the same id
OccurrencesShareAnId ==
  /\ expanded
  /\ argument.eventSchedule.byDay = <<"Monday", "Wednesday">>
  /\ ~argument.eventSchedule.idTemplate.placeholder
  /\ argument.eventSchedule.duration = "PT1H"
  /\ Len(result.returned.sessions) >= 2
  /\ result.returned.sessions[1].startDate # result.returned.sessions[2].startDate
  /\ result.returned.sessions[1].id = result.returned.sessions[2].id
  /\ result.returned.sessions[1].duration = "PT1H"

(***************************************************************************)
(* The segments of an event, by their definition.                          *)
(***************************************************************************)
\* the coordinate of an event: that of location, else that of affiliatedLocation
coordinateOf(item) == IF item.location # NoGeo THEN item.location ELSE item.affiliatedLocation

supportsOnlineAttendance(item) ==
  item.eventAttendanceMode \in {OnlineEventAttendanceMode, MixedEventAttendanceMode}

\* the segment's filter admits the event
admits(segment, item) ==
  \/ segment.attendanceModeFilter = "all"
  \/ segment.attendanceModeFilter = "physical-only" /\ supportsOfflineAttendance(item)
  \/ segment.attendanceModeFilter = "virtual-only" /\ supportsOnlineAttendance(item)

\* the distance between two points of the line, in metres
metresBetween(a, b) == IF a >= b THEN (a - b) * 1000 ELSE (b - a) * 1000

\* the configured segments the event belongs to
belongsTo(segment, item) ==
  /\ admits(segment, item)
  /\ coordinateOf(item) # NoGeo => metresBetween(coordinateOf(item), segment.position) <= segment.radius * 1000

isDroppedEvent(item) == supportsOfflineAttendance(item) /\ hasNoCoordinate(item)

\* C31: for an event that is not dropped, the result is the identifiers of
\* the configured segments, in configured order, whose filter admits the
\* event and, when the event has a coordinate, whose centre is within the
\* segment's radius of it; an online-only event without a coordinate is in
\* every segment whose filter is all or virtual-only.
SegmentAssignmentByDefinition ==
  (segmented /\ ~isDroppedEvent(argument.mergedScheduledSession))
    => LET item == argument.mergedScheduledSession
           segments == argument.segments
           identifiers == result.returned.identifiers
           chosen == {i \in 1..Len(segments) : belongsTo(segments[i], item)}
       IN /\ ~result.returned.throws
          /\ Len(identifiers) = Cardinality(chosen)
          /\ \A k \in 1..Len(identifiers) :
               \E i \in chosen :
                 /\ identifiers[k] = segments[i].identifier
                 /\ Cardinality({j \in chosen : j < i}) = k - 1
          /\ (item.eventAttendanceMode = OnlineEventAttendanceMode /\ hasNoCoordinate(item))
               => Len(identifiers) =
                    Cardinality({i \in 1..Len(segments) :
                                   segments[i].attendanceModeFilter \in {"all", "virtual-only"}})

\* a mixed event 1 km from the centre of the second segment and 7 km from
\* that of the first, both of which admit it, is in the second only
EventInTheNearSegmentOnly ==
  /\ segmented
  /\ argument.mergedScheduledSession =
       [location |-> 1, affiliatedLocation |-> 4, eventAttendanceMode |-> MixedEventAttendanceMode]
  /\ argument.segments = << ConfigSegment(8, "all"), ConfigSegment(0, "virtual-only") >>
  /\ result.returned.identifiers = << <<0, "virtual-only">> >>

(***************************************************************************)
(* Properties of the schedules of a stored series.                         *)
(***************************************************************************)
\* the delivered SessionSeries item writes its record
writesSeriesRecord ==
  /\ isSeriesDelivery
  /\ reachesSeriesStoreCheck(lastDelivered.item)
  /\ LET path == getSessionSeriesFilePath(hashString(lastDelivered.item.id))
     IN ~(exists(files, path) /\ files[path].id # lastDelivered.item.id)

\* non-empty byDay, startTime, endTime and idTemplate present
passesStructuralValidation(eventSchedule) ==
  /\ eventSchedule.byDayIsArray /\ eventSchedule.byDay # <<>>
  /\ eventSchedule.startTime >= 0
  /\ eventSchedule.endTime >= 0
  /\ eventSchedule.idTemplate.base # ""

asPersisted(eventSchedule) ==
  IF passesStructuralValidation(eventSchedule) THEN eventSchedule
  ELSE [eventSchedule EXCEPT !.type = "PartialSchedule"]

\* C32: for a series whose record is written, every entry of eventSchedule
\* of type Schedule is in the record's list in its original relative order,
\* unchanged if it passes the structural validation and re-typed as
\* PartialSchedule otherwise, and the occurrences written with it are those
\* of the valid schedules only.
ScheduleNormalisation ==
  [][writesSeriesRecord
       => LET item == lastDelivered.item
              original == SelectSeq(item.data.eventSchedule,
                                    LAMBDA eventSchedule : eventSchedule.type = "Schedule")
              stored == files'[getSessionSeriesFilePath(hashString(item.id))].eventSchedule
              validBases == {original[i].idTemplate.base :
                               i \in {j \in 1..Len(original) :
                                        passesStructuralValidation(original[j])}}
          IN /\ stored = [i \in 1..Len(original) |-> asPersisted(original[i])]
             /\ \A path \in DOMAIN files' :
                  (/\ isOccurrencePath(path)
                   /\ (path \notin DOMAIN files \/ files'[path] # files[path]))
                    => files'[path].id.base \in validBases]_vars

\* the series with three entries was delivered: its record holds the first
\* as a PartialSchedule and the third unchanged, and the occurrence of
\* Monday 2024-01-08 18:00 is written from the third
PartialAndValidSchedulesStored ==
  /\ delivered.items =
       << Delivery("series",
                   SeriesItem(idC, idC, 1, <<ScheduleWithoutEndTime, OtherSchedule, WeeklySchedule>>)) >>
  /\ exists(files, getSessionSeriesFilePath(hashString(idC)))
  /\ files[getSessionSeriesFilePath(hashString(idC))].eventSchedule =
       << [ScheduleWithoutEndTime EXCEPT !.type = "PartialSchedule"], WeeklySchedule >>
  /\ \E path \in DOMAIN files :
       /\ isOccurrencePath(path)
       /\ files[path].id = [base |-> "evt", at |-> 7 * HoursPerDay + 18]

(***************************************************************************)
(* The revision of geoSegment.js whose item processors leave their loop    *)
(* with "return" where the other leaves an item with "continue".  It links *)
(* a ScheduledSession to its SessionSeries (superEvent: sessionSeries),    *)
(* names files by hash, and keeps no model.json.                           *)
(***************************************************************************)
\* one pass of the loop over sessionSeries['imin:segment']
linkIntoSegment(out, segmentIdentifier, linked) ==
  LET scheduledSessionIdHash == hashString(linked.id)
      scheduledSessionFilePath == getScheduledSessionFilePath(segmentIdentifier, scheduledSessionIdHash)
      isExistingScheduledSession == exists(out.files, scheduledSessionFilePath)
      existing == readJsonNullIfNotExists(out.files, scheduledSessionFilePath)
  IN IF isExistingScheduledSession /\ isHashClash(existing, linked.id)
       THEN [out EXCEPT !.logs = @ \cup {hashClashWarning(existing.id, linked.id,
                                                          scheduledSessionIdHash)}]
       ELSE [out EXCEPT
               !.files = writeJson(@, scheduledSessionFilePath, linked),
               !.firstWriter = noteFirstWriter(@, scheduledSessionFilePath, linked.id),
               !.index = IF ~isExistingScheduledSession
                           THEN [@ EXCEPT ![segmentIdentifier] =
                                   Append(@, HashedName(scheduledSessionIdHash))]
                           ELSE @]

\* the set-up of the segment folders that is still to be done: a sequence of
\* [segmentIdentifier, op], op the file operation the segment waits for
SetUpOps == <<"emptyOrMakeDirectory", "writeFile">>

\* the segment folders that exist
madeDirectories ==
  IF script \in {"geoSegmentUnawaited", "geoSegmentAwaited"}
    THEN SegmentIds \ {pending[i].segmentIdentifier :
                         i \in {j \in 1..Len(pending) : pending[j].op = "emptyOrMakeDirectory"}}
    ELSE SegmentIds

\* the line of a ScheduledSession in index.txt: the hash alone
HashLine(hash) == [base |-> "hash", at |-> hash]

\* the same pass in the revision with createSegmentDirectories: a file that is
\* there is left alone, fs.writeJson needs the segment folder and fs.readFile
\* needs index.txt, and the hash is appended unless index.txt includes it
linkIntoSegmentIfAbsent(out, segmentIdentifier, linked) ==
  LET scheduledSessionIdHash == hashString(linked.id)
      scheduledSessionFilePath == getScheduledSessionFilePath(segmentIdentifier, scheduledSessionIdHash)
      existing == readJsonNullIfNotExists(out.files, scheduledSessionFilePath)
  IN IF exists(out.files, scheduledSessionFilePath)
       THEN IF isHashClash(existing, linked.id)
              THEN [out EXCEPT !.logs = @ \cup {hashClashWarning(existing.id, linked.id,
                                                                 scheduledSessionIdHash)}]
              ELSE out
     ELSE IF segmentIdentifier \notin madeDirectories
       THEN [out EXCEPT !.status = "crashed"]
     ELSE IF segmentIdentifier \notin DOMAIN out.index
       THEN [out EXCEPT
               !.files = writeJson(@, scheduledSessionFilePath, linked),
               !.firstWriter = noteFirstWriter(@, scheduledSessionFilePath, linked.id),
               !.status = "crashed"]
     ELSE [out EXCEPT
             !.files = writeJson(@, scheduledSessionFilePath, linked),
             !.firstWriter = noteFirstWriter(@, scheduledSessionFilePath, linked.id),
             !.index = IF \E i \in 1..Len(@[segmentIdentifier]) :
                               @[segmentIdentifier][i] = HashLine(scheduledSessionIdHash)
                         THEN @
                         ELSE [@ EXCEPT ![segmentIdentifier] =
                                 Append(@, HashLine(scheduledSessionIdHash))]]

RECURSIVE linkIntoSegments(_, _, _)
linkIntoSegments(out, segmentIdentifiers, linked) ==
  IF segmentIdentifiers = <<>> \/ out.status # "ok" THEN out
  ELSE linkIntoSegments(
         IF script = "geoSegmentUnawaited"
           THEN linkIntoSegmentIfAbsent(out, Head(segmentIdentifiers), linked)
           ELSE linkIntoSegment(out, Head(segmentIdentifiers), linked),
         Tail(segmentIdentifiers), linked)

linkAndWrite(out, scheduledSessionData, sessionSeries) ==
  LET linked == linkScheduledSessionAndSessionSeries(scheduledSessionData, sessionSeries)
  IN IF sessionSeries.segment # <<>> /\ linked.id = NoId
       THEN [out EXCEPT !.status = "crashed"]
       ELSE linkIntoSegments(out, sessionSeries.segment, linked)

RECURSIVE linkAndWriteAll(_, _, _)
linkAndWriteAll(out, scheduledSessions, sessionSeries) ==
  IF scheduledSessions = <<>> \/ out.status # "ok" THEN out
  ELSE linkAndWriteAll(linkAndWrite(out, Head(scheduledSessions), sessionSeries),
                       Tail(scheduledSessions), sessionSeries)

\* the body of the loop of processSessionSeriesItems for one item:
\* [out, returns], returns when the body ends with "return"
sessionSeriesItemWithReturn(out, item, nowMoment) ==
  IF item.null THEN [out |-> [out EXCEPT !.status = "crashed"], returns |-> TRUE]
  ELSE IF \/ item.state = "deleted"
          \/ item.id = NoId
          \/ (item.data.location = NoGeo /\ item.data.affiliatedLocation = NoGeo)
    THEN [out |-> out, returns |-> TRUE]
  ELSE
    LET sessionSeriesData ==
          [item.data EXCEPT
             !.segment = segmentIdentifiersInRange(sessionSeriesPhysicalLocationGeoOf(item.data))]
        schedules == validateAndGenerate(sessionSeriesData.eventSchedule, nowMoment)
        sessionSeriesIdHash == hashString(item.id)
        sessionSeriesFilePath == getSessionSeriesFilePath(sessionSeriesIdHash)
        existingSessionSeries == readJsonNullIfNotExists(out.files, sessionSeriesFilePath)
    IN IF sessionSeriesData.segment = <<>> THEN [out |-> out, returns |-> TRUE]
       ELSE IF schedules.hangs THEN [out |-> [out EXCEPT !.status = "hung"], returns |-> TRUE]
       ELSE IF exists(out.files, sessionSeriesFilePath)
               /\ isSessionSeriesHashClash(existingSessionSeries, item)
         THEN [out |-> [out EXCEPT !.logs = @ \cup
                          {hashClashWarning(existingSessionSeries.id, item.id, sessionSeriesIdHash)}],
               returns |-> TRUE]
       ELSE [out |-> linkAndWriteAll(
                       [out EXCEPT
                          !.files = writeJson(@, sessionSeriesFilePath,
                                              [sessionSeriesData EXCEPT
                                                 !.eventSchedule = schedules.corrected]),
                          !.firstWriter = noteFirstWriter(@, sessionSeriesFilePath, item.id)],
                       schedules.sessions, sessionSeriesData),
             returns |-> FALSE]

RECURSIVE processSessionSeriesItemsWithReturn(_, _, _)
processSessionSeriesItemsWithReturn(out, items, nowMoment) ==
  IF items = <<>> \/ out.status # "ok" THEN out
  ELSE LET body == sessionSeriesItemWithReturn(out, Head(items), nowMoment)
       IN IF body.returns THEN body.out
          ELSE processSessionSeriesItemsWithReturn(body.out, Tail(items), nowMoment)

\* the body of the loop of processScheduledSessionItems for one item
scheduledSessionItemWithReturn(out, item, nowMoment) ==
  IF item.null THEN [out |-> [out EXCEPT !.status = "crashed"], returns |-> TRUE]
  ELSE IF \/ item.state = "deleted"
          \/ item.id = NoId
          \/ item.data.startDate = NoDate
          \/ item.data.startDate < nowMoment
    THEN [out |-> out, returns |-> TRUE]
  ELSE IF item.data.superEvent.kind # "ref"
    THEN [out |-> [out EXCEPT !.status = "crashed"], returns |-> TRUE]
  ELSE
    LET scheduledSessionSuperEventIdHash == hashString(item.data.superEvent.ref)
        sessionSeriesFilePath == getSessionSeriesFilePath(scheduledSessionSuperEventIdHash)
        sessionSeries == readJsonNullIfNotExists(out.files, sessionSeriesFilePath)
    IN IF ~exists(out.files, sessionSeriesFilePath) THEN [out |-> out, returns |-> TRUE]
       ELSE IF isSuperEventMismatch(item.data.superEvent.ref, sessionSeries)
         THEN [out |-> [out EXCEPT !.logs = @ \cup
                          {superEventMismatchWarning(item.data.superEvent.ref, sessionSeries.id,
                                                     scheduledSessionSuperEventIdHash)}],
               returns |-> TRUE]
       ELSE [out |-> linkAndWrite(out, item.data, sessionSeries), returns |-> FALSE]

RECURSIVE processScheduledSessionItemsWithReturn(_, _, _)
processScheduledSessionItemsWithReturn(out, items, nowMoment) ==
  IF items = <<>> \/ out.status # "ok" THEN out
  ELSE LET body == scheduledSessionItemWithReturn(out, Head(items), nowMoment)
       IN IF body.returns THEN body.out
          ELSE processScheduledSessionItemsWithReturn(body.out, Tail(items), nowMoment)

(***************************************************************************)
(* The item processors on whole pages: main has made the output            *)
(* directories, and the walker hands pages of the SessionSeries feed and   *)
(* then pages of the ScheduledSession feed to the processor of the         *)
(* revision that runs.                                                     *)
(***************************************************************************)
PageScripts == {"geoSegment", "geoSegmentWithReturn"}

\* a ScheduledSession of tomorrow that names no superEvent
ParentlessOccurrenceItem ==
  [OccurrenceItem(idC, NoId, NowThursday + HoursPerDay) EXCEPT !.data.superEvent = NoSuperEvent]

PageItems(feed) ==
  IF feed = "series" THEN SeriesItems ELSE OccurrenceItems \cup {ParentlessOccurrenceItem}

\* the pages a feed may send: up to MaxItems items
PagesOf(feed) == UNION {[1..n -> PageItems(feed)] : n \in 1..MaxItems}

Page(feed, items) == [of |-> "page", feed |-> feed, items |-> items]

\* processItemsFn(items) of the revision that runs
processPage(out, feed, items, nowMoment) ==
  CASE script = "geoSegment" /\ feed = "series" -> processSessionSeriesItems(out, items, nowMoment)
    [] script = "geoSegment" /\ feed = "occurrences" ->
         processScheduledSessionItems(out, items, nowMoment)
    [] script # "geoSegment" /\ feed = "series" ->
         processSessionSeriesItemsWithReturn(out, items, nowMoment)
    [] script # "geoSegment" /\ feed = "occurrences" ->
         processScheduledSessionItemsWithReturn(out, items, nowMoment)

InitPage ==
  /\ script \in PageScripts
  /\ walk = "series"
  /\ pc = "ready"
  /\ nextUrl = 1
  /\ attemptNumber = 0
  /\ backoffTimeInSeconds = RETRY_BACKOFF_MIN
  /\ pageNum = 0
  /\ exitCode = -1
  /\ lastWait = 0
  /\ failuresOnPage = 0
  /\ lastFetch = NoFetch
  /\ handed = [feed \in Feeds |-> 0]
  /\ files = emptyOrMakeOutputDirectories(NoOutput).files
  /\ firstWriter = emptyOrMakeOutputDirectories(NoOutput).firstWriter
  /\ index = emptyOrMakeOutputDirectories(NoOutput).index
  /\ logs = emptyOrMakeOutputDirectories(NoOutput).logs
  /\ pending = <<>>
  /\ sessionSeriesFilePaths = {}
  /\ now = NowThursday
  /\ delivered = NoDelivery
  /\ argument = NoArgument
  /\ result = NoResult

pageFrame == <<script, nextUrl, attemptNumber, backoffTimeInSeconds, exitCode, lastWait,
               failuresOnPage, lastFetch, handed, pending, sessionSeriesFilePaths, now,
               delivered, result>>

\* await processItemsFn(items): the processor runs on the page and returns,
\* or an exception leaves it and nothing in main catches it
HandPage(feed, items) ==
  LET out == processPage(outNow, feed, items, now)
  IN /\ pc = "ready"
     /\ pageNum < MaxPages
     /\ out.status \in {"ok", "crashed"}
     /\ pc' = IF out.status = "ok" THEN "ready" ELSE "crashed"
     /\ files' = out.files
     /\ firstWriter' = out.firstWriter
     /\ index' = out.index
     /\ logs' = out.logs
     /\ argument' = Page(feed, items)
     /\ pageNum' = pageNum + 1
     /\ UNCHANGED pageFrame

HandSessionSeriesPage ==
  /\ walk = "series"
  /\ \E items \in PagesOf("series") : HandPage("series", items)
  /\ UNCHANGED walk

HandScheduledSessionPage ==
  /\ \E items \in PagesOf("occurrences") : HandPage("occurrences", items)
  /\ walk' = "occurrences"

NextPage ==
  \/ HandSessionSeriesPage
  \/ HandScheduledSessionPage

SpecPage == InitPage /\ [][NextPage]_vars

(***************************************************************************)
(* Properties of the items of a page.                                      *)
(***************************************************************************)
isPageHanded == pageNum' = pageNum + 1

\* the item, alone on a page, would be dropped now: no file and no listing
\* changes
isDroppedNow(feed, item) ==
  LET out == processPage(outNow, feed, <<item>>, now)
  IN out.status = "ok" /\ out.files = files /\ out.index = index

declaresNoParent(item) ==
  ~item.null /\ item.state = "updated" /\ item.data.superEvent.kind = "absent"

\* C33: an item that is dropped (deleted, without id, without location, in
\* no segment, in the past, of an unknown parent, or in a hash collision)
\* affects that item only: the items after it on the page are processed as
\* if it were not there.
ItemIndependence ==
  [][(/\ isPageHanded
      /\ Len(argument'.items) >= 2
      /\ isDroppedNow(argument'.feed, Head(argument'.items)))
       => LET out == processPage(outNow, argument'.feed, Tail(argument'.items), now)
          IN files' = out.files /\ index' = out.index]_vars

\* the same for the revision that leaves an item with "continue"
ItemIndependenceWithContinue ==
  [][(/\ script = "geoSegment"
      /\ isPageHanded
      /\ Len(argument'.items) >= 2
      /\ isDroppedNow(argument'.feed, Head(argument'.items)))
       => LET out == processPage(outNow, argument'.feed, Tail(argument'.items), now)
          IN files' = out.files /\ index' = out.index]_vars

\* the page held a deleted series and then series a: nothing is stored
SeriesAfterDeletedOneLost ==
  /\ script = "geoSegmentWithReturn"
  /\ pageNum = 1
  /\ argument = Page("series", << [SeriesItem(idA, idA, 1, <<>>) EXCEPT !.state = "deleted"],
                                  SeriesItem(idA, idA, 1, <<>>) >>)
  /\ DOMAIN files = {}

(***************************************************************************)
(* Properties of the invocations of the item processor by the walker of    *)
(* geoSegment.                                                             *)
(***************************************************************************)
\* the request that was under way is answered in this step
isAnswered == pc = "fetching" /\ pc' # "fetching"

isInvoked == handed'[walk] = handed[walk] + 1

\* C34: in geoSegment the item processor is invoked once for every fetch
\* that succeeds and for no fetch that fails: the page it is given is the one
\* fetched from the walker's URL, the first page of a walk is the start of the
\* feed, and once the processor has returned the walker never asks for the
\* same URL again: it goes on to the page's next URL or the walk is over.
ProcessedOncePerPage ==
  [][script # "walkRpde" =>
       /\ isAnswered => ((lastFetch'.throws = "none") <=> isInvoked)
       /\ (~isAnswered \/ lastFetch'.throws # "none") => handed' = handed
       /\ \A feed \in Feeds \ {walk} : handed'[feed] = handed[feed]
       /\ isInvoked =>
            /\ lastFetch'.handed /\ lastFetch'.url = nextUrl /\ lastFetch'.feed = walk
            /\ (handed[walk] = 0 => nextUrl = 1)
            /\ (pc' = "ready" /\ walk' = walk) =>
                 nextUrl' = lastFetch'.next /\ nextUrl' # nextUrl
            /\ pc' = "ready" \/ ~running']_vars

\* the last page of the feeds was processed after two failed attempts to
\* fetch it, and the run ended normally
PageProcessedAfterRetries ==
  /\ script # "walkRpde"
  /\ exitCode = 0
  /\ failuresOnPage = 2
  /\ lastFetch.handed
  /\ handed["series"] = 1
  /\ handed["occurrences"] = 1

(***************************************************************************)
(* walkRpde with a file system that may fail: fsPromises.writeFile or      *)
(* fsPromises.appendFile rejects inside downloadPage, the walker's catch   *)
(* block takes the error like any other and the page is asked for again.   *)
(***************************************************************************)
InitRpde == Init /\ script = "walkRpde"

\* the file system fails at most so many times in a row on a page
MaxWriteFailures == 1

\* the items of the page before the one whose write fails
itemsBefore(items, k) == SubSeq(items, 1, k)

\* the write of item k (from 0) of a page rejects, or, with k the length of
\* the page, the append to the index file does
WriteFails ==
  /\ UNCHANGED probeVars
  /\ script = "walkRpde"
  /\ pc = "fetching"
  /\ failuresOnPage < MaxWriteFailures
  /\ \E response \in Responses(walk) :
       /\ getFirehosePage(response).throws = "none"
       /\ downloadPage(outNow, response.items, pageNum).status = "ok"
       /\ \E k \in 0..Len(response.items) :
            LET saved == downloadPage(outNow, itemsBefore(response.items, k), pageNum)
            IN /\ k < Len(response.items) => response.items[k + 1].state = "updated"
               /\ files' = saved.files
               /\ firstWriter' = saved.firstWriter
       /\ lastFetch' = Fetched(response, "none", TRUE)
  /\ IF limitReached
       THEN /\ pc' = "exited"
            /\ exitCode' = 1
            /\ logs' = logs \cup {retryWarning(nextUrl), backoffLimitError(nextUrl)}
            /\ failuresOnPage' = failuresOnPage + 1
            /\ UNCHANGED <<script, walk, nextUrl, attemptNumber, backoffTimeInSeconds, pageNum,
                           lastWait, sessionSeriesFilePaths, now>>
       ELSE RetryAfter("Error")
  /\ UNCHANGED <<handed, index, pending>>

NextRpde ==
  \/ IssueFetch
  \/ FetchNotFound
  \/ FetchFails
  \/ BackoffExhausted
  \/ PageAdvances
  \/ PageEndsWalk
  \/ SaveFails
  \/ WriteFails

SpecRpde == InitRpde /\ [][NextRpde]_vars

(***************************************************************************)
(* Properties of the output of walkRpde.                                   *)
(***************************************************************************)
indexEntriesOf(file) == {i \in 1..Len(index[RpdeIndex]) : index[RpdeIndex][i] = file}

savedFiles == {path.file : path \in DOMAIN files}

isBetweenPages == exitCode = 0 \/ (pc = "ready" /\ failuresOnPage = 0)

\* C35: in walkRpde, once a page is completed, whatever failed before, every
\* saved file holds an item with state updated and has exactly one entry in
\* the index file, every entry of the index file names a saved file, and no
\* two entries name the same file.
RpdeOutput ==
  (script = "walkRpde" /\ isBetweenPages) =>
    /\ \A path \in DOMAIN files :
         /\ files[path].state = "updated"
         /\ Cardinality(indexEntriesOf(path.file)) = 1
    /\ \A i \in 1..Len(index[RpdeIndex]) :
         /\ index[RpdeIndex][i] \in savedFiles
         /\ indexEntriesOf(index[RpdeIndex][i]) = {i}

\* the same while a page is being retried: a file may be saved and not yet
\* listed, and nothing else is wrong
RpdeOutputDuringRetries ==
  script = "walkRpde" =>
    /\ \A path \in DOMAIN files :
         /\ files[path].state = "updated"
         /\ Cardinality(indexEntriesOf(path.file)) <= 1
    /\ \A i \in 1..Len(index[RpdeIndex]) : index[RpdeIndex][i] \in savedFiles

\* C36: in the revision that leaves an item with "continue", a
\* ScheduledSession of the feed that names no superEvent is dropped like one
\* whose SessionSeries is not stored: no exception leaves the item processor,
\* nothing is written for it, and the rest of the page is processed as if it
\* were not there.
ParentlessOccurrenceIsDropped ==
  [][(/\ script = "geoSegment"
      /\ isPageHanded
      /\ argument'.feed = "occurrences"
      /\ declaresNoParent(Head(argument'.items)))
       => LET out == processPage(outNow, "occurrences", Tail(argument'.items), now)
          IN pc' = "ready" /\ files' = out.files /\ index' = out.index]_vars

(***************************************************************************)
(* Properties of the parent data of generated and of feed occurrences.     *)
(***************************************************************************)
\* the attributes an occurrence takes from its series when it has none of its own
seriesAttributes ==
  {"eventSchedule", "location", "affiliatedLocation", "segment", "eventAttendanceMode",
   "presentAsSlots"}

isWrittenInThisStep(path) ==
  isOccurrencePath(path) /\ (path \notin DOMAIN files \/ files'[path] # files[path])

\* C37: the series attributes in an occurrence file are those of the series
\* record as persisted, its corrected eventSchedule included, both for an
\* occurrence generated when the series is processed and for an occurrence
\* of the series that comes from the feed.
SameParentData ==
  [][/\ writesSeriesRecord =>
          LET record == files'[getSessionSeriesFilePath(hashString(lastDelivered.item.id))]
          IN \A path \in DOMAIN files' :
               isWrittenInThisStep(path) =>
                 \A field \in seriesAttributes : files'[path][field] = record[field]
     /\ \A path \in DOMAIN files' :
          isWrittenHere(path) =>
            \A field \in seriesAttributes :
              lastDelivered.item.data[field] = NoData[field] =>
                files'[path][field] = files[parentPath(lastDelivered.item)][field]]_vars

\* the same for the occurrences that come from the feed only
FeedOccurrenceTakesPersistedData ==
  [][\A path \in DOMAIN files' :
       isWrittenHere(path) =>
         \A field \in seriesAttributes :
           lastDelivered.item.data[field] = NoData[field] =>
             files'[path][field] = files[parentPath(lastDelivered.item)][field]]_vars

(***************************************************************************)
(* Properties of the end of a generated ScheduledSession.                  *)
(***************************************************************************)
\* C38: a ScheduledSession that generateDatesWithinTimeWindow emits does not
\* end before it starts, also when the schedule's endTime is earlier in the
\* day than its startTime.
EndNotBeforeStart ==
  expanded =>
    \A i \in 1..Len(result.returned.sessions) :
      result.returned.sessions[i].endDate >= result.returned.sessions[i].startDate

\* the same for the schedules that end later in the day than they start
EndNotBeforeStartWithinDay ==
  (expanded /\ argument.eventSchedule.endTime >= argument.eventSchedule.startTime) =>
    \A i \in 1..Len(result.returned.sessions) :
      result.returned.sessions[i].endDate >= result.returned.sessions[i].startDate

(***************************************************************************)
(* The set-up of the output folders and the walk.  "geoSegmentUnawaited"   *)
(* is the revision whose createSegmentDirectories starts one async         *)
(* function per segment and returns without waiting for them;              *)
(* "geoSegmentAwaited" is the last revision, whose main awaits             *)
(* emptyOrMakeOutputDirectories and with it the set-up of one segment      *)
(* after the other.  The output folder itself was emptied before, so that  *)
(* no segment folder exists when the set-up starts.                        *)
(***************************************************************************)
SetUpScripts == {"geoSegmentUnawaited", "geoSegmentAwaited"}

SetUpTask(segmentIdentifier) == [segmentIdentifier |-> segmentIdentifier, op |-> SetUpOps[1]]

InitSetUp ==
  /\ script \in SetUpScripts
  /\ walk = "series"
  /\ pc = "ready"
  /\ nextUrl = 1
  /\ attemptNumber = 0
  /\ backoffTimeInSeconds = RETRY_BACKOFF_MIN
  /\ pageNum = 0
  /\ exitCode = -1
  /\ logs = {}
  /\ lastWait = 0
  /\ failuresOnPage = 0
  /\ lastFetch = NoFetch
  /\ handed = [feed \in Feeds |-> 0]
  /\ files = [path \in {} |-> NoData]
  /\ firstWriter = [path \in {} |-> NoId]
  /\ index = [segmentIdentifier \in {} |-> <<>>]
  /\ pending = [i \in 1..Len(Segments) |-> SetUpTask(Segments[i].identifier)]
  /\ sessionSeriesFilePaths = {}
  /\ now = NowThursday
  /\ delivered = NoDelivery
  /\ argument = NoArgument
  /\ result = NoResult

setUpFrame == <<script, nextUrl, attemptNumber, backoffTimeInSeconds, pageNum, exitCode, lastWait,
                failuresOnPage, lastFetch, sessionSeriesFilePaths, now, delivered, result>>

\* one file operation of the set-up completes: the folder of the segment is
\* made, or its index.txt is written empty.  Awaited, the operations come in
\* the order of the segments; unawaited, in any order of the segments.
SetUpStep ==
  /\ \E i \in 1..Len(pending) :
       /\ script = "geoSegmentAwaited" => i = 1
       /\ IF pending[i].op = "emptyOrMakeDirectory"
            THEN /\ pending' = [pending EXCEPT ![i].op = "writeFile"]
                 /\ UNCHANGED index
            ELSE /\ pending' = removeAt(pending, i)
                 /\ index' = [segmentIdentifier \in DOMAIN index \cup {pending[i].segmentIdentifier} |->
                                IF segmentIdentifier = pending[i].segmentIdentifier THEN <<>>
                                ELSE index[segmentIdentifier]]
  /\ UNCHANGED <<walk, pc, handed, files, firstWriter, logs, argument>>
  /\ UNCHANGED setUpFrame

\* main goes on to the walk and the request for a page leaves: at once when
\* the set-up is not awaited, after it otherwise
RequestPage ==
  /\ pc = "ready"
  /\ pagesHanded < MaxPages
  /\ script = "geoSegmentAwaited" => pending = <<>>
  /\ pc' = "fetching"
  /\ UNCHANGED <<walk, handed, files, firstWriter, index, logs, pending, argument>>
  /\ UNCHANGED setUpFrame

\* the page arrives and the item processor runs on it
ProcessPage ==
  /\ pc = "fetching"
  /\ \E items \in PagesOf(walk) :
       LET out == processPage(outNow, walk, items, now)
       IN /\ out.status \in {"ok", "crashed"}
          /\ pc' = IF out.status = "ok" THEN "ready" ELSE "crashed"
          /\ files' = out.files
          /\ firstWriter' = out.firstWriter
          /\ index' = out.index
          /\ logs' = out.logs
          /\ argument' = Page(walk, items)
  /\ handed' = [handed EXCEPT ![walk] = @ + 1]
  /\ walk' \in {walk, "occurrences"}
  /\ UNCHANGED pending
  /\ UNCHANGED setUpFrame

NextSetUp ==
  \/ SetUpStep
  \/ RequestPage
  \/ ProcessPage

SpecSetUp == InitSetUp /\ [][NextSetUp]_vars

(***************************************************************************)
(* Properties of the set-up of the output folders.                         *)
(***************************************************************************)
isSetUp == madeDirectories = SegmentIds /\ DOMAIN index = SegmentIds

isPrefix(list, longer) == Len(list) <= Len(longer) /\ SubSeq(longer, 1, Len(list)) = list

\* C39: the folder of every configured segment and its empty index.txt
\* exist before the request for the first page leaves; the item processor
\* never runs while one of them is missing, and no line of an index.txt
\* is lost afterwards.
SetUpPrecedesProcessing ==
  [][/\ pc' = "fetching" => isSetUp'
     /\ handed' # handed => isSetUp
     /\ \A segmentIdentifier \in DOMAIN index :
          /\ segmentIdentifier \in DOMAIN index'
          /\ isPrefix(index[segmentIdentifier], index'[segmentIdentifier])]_vars

\* the same where main awaits the set-up
SetUpPrecedesProcessingWhenAwaited ==
  [][script = "geoSegmentAwaited" =>
       /\ pc' = "fetching" => isSetUp'
       /\ handed' # handed => isSetUp
       /\ \A segmentIdentifier \in DOMAIN index :
            /\ segmentIdentifier \in DOMAIN index'
            /\ isPrefix(index[segmentIdentifier], index'[segmentIdentifier])]_vars

\* unawaited, no line of an index.txt is ever lost: a line is appended only
\* once index.txt could be read
NoListingEntryLost ==
  [][\A segmentIdentifier \in DOMAIN index :
       /\ segmentIdentifier \in DOMAIN index'
       /\ isPrefix(index[segmentIdentifier], index'[segmentIdentifier])]_vars

\* the item processor was given an occurrence of a stored series while the
\* folder of the segment was not there, and the write threw
WriteIntoMissingFolder ==
  /\ script = "geoSegmentUnawaited"
  /\ pc = "crashed"
  /\ "s1" \notin madeDirectories
  /\ argument = Page("occurrences", <<OccurrenceItem(idA, idA, NowThursday + HoursPerDay)>>)

====
